---- MODULE Spec2Model ----
(***************************************************************************)
(* Model of create_sophisticated_presentations.py: five slide decks are    *)
(* built by straight-line drawing calls and saved one after the other.     *)
(*                                                                         *)
(* A deck build is a sequence of instructions, one per statement of the    *)
(* source that touches the presentation (a library call, an attribute      *)
(* assignment, the inlined opacity snippet, a call of add_text_box).  Each *)
(* instruction carries the source line `ln' of its statement, the literal  *)
(* arguments (lengths in EMU: Inches(x) = int(x * 914400),                 *)
(* Pt(x) = int(x * 12700)) and, for a statement acting on a shape          *)
(* variable, the index `h' of that shape in the current slide.  Loops of   *)
(* the source are unrolled in execution order.  Text literals are written  *)
(* in ASCII (ae, oe, ue, ss, EUR for the German letters and the euro sign).*)
(***************************************************************************)
EXTENDS Integers, Sequences, FiniteSets, TLC

VARIABLES
    mpc,       \* position in the main block (index into Main)
    pc,        \* instructions of the running create_presentation_k done
    prs,       \* the local `prs' of the running create_presentation_k
    files,     \* the file system: output path -> file
    stdout,    \* the lines printed so far
    exc,       \* the uncaught exception that ended the program, or NoExc
    fault,     \* the inline colour literal assumed out of range, or NoFault
    reopened,  \* the presentation read back from a saved file
    did,       \* the call just made on the slide under test, or NoCall
    now,       \* the wall clock, in the 2-second units of a ZIP member's time
    ctx        \* the locals of the suspended workers (one worker per build)

vars == <<mpc, pc, prs, files, stdout, exc, fault, reopened, did, now, ctx>>

(***************************************************************************)
(* Module constants of the source.                                         *)
(***************************************************************************)
SLIDE_WIDTH == 12191695

SLIDE_HEIGHT == 6858000

AVEMO_ORANGE == <<255, 121, 50>>

AVEMO_BLACK == <<26, 26, 26>>

AVEMO_WHITE == <<255, 255, 255>>

(***************************************************************************)
(* The document library's objects, as far as the source uses them.         *)
(***************************************************************************)
NoColor == << >>

NoText == [wrap |-> FALSE, text |-> "", size |-> 0, rgb |-> NoColor,
           bold |-> FALSE, font |-> "", align |-> ""]

NoPrs == [open |-> FALSE, width |-> 0, height |-> 0, slides |-> << >>]

NoFile == [exists |-> FALSE, complete |-> FALSE, data |-> << >>, mtime |-> 0]

NoExc == [type |-> "none", arg |-> ""]

NoFault == [k |-> 0, ln |-> 0]

NoGeom == << >>

NoCall == [op |-> "none", p |-> 0, at |-> NoGeom, rgb |-> NoColor]

\* No workers: the builds run one after the other in the main block.
NoCtx == << >>

\* An RGBColor that takes any three numbers.
MutRGBColorUnchecked(c) == FALSE

\* RGBColor(r, g, b) raises ValueError unless every channel is in 0..255.
RGBColorRaises(c) == \E i \in 1..3 : c[i] < 0 \/ c[i] > 255

\* Presentation(): the library's default template, a 4:3 canvas, no slides.
Presentation == [open |-> TRUE, width |-> 9144000, height |-> 6858000,
                 slides |-> << >>]

MaxOf(S) == CHOOSE m \in S : \A n \in S : n <= m

\* Shape ids of a slide: one more than the largest id in its shape tree,
\* whose root has id 1.
NextShapeId(slide) ==
    MaxOf({1} \cup {slide[i].id : i \in 1..Len(slide)}) + 1

NewSp(id, isTxBox, prst, left, top, width, height, fill) ==
    [id |-> id, txBox |-> isTxBox, prst |-> prst,
     left |-> left, top |-> top, width |-> width, height |-> height,
     rot |-> 0, adj |-> << >>,
     fill |-> fill, rgb |-> NoColor, alpha |-> << >>,
     lnFill |-> "none", lnRgb |-> NoColor, lnWidth |-> << >>,
     text |-> NoText]

\* add_shape putting the new autoshape first in the shape tree.
MutPrependShape(slide, prst, left, top, width, height) ==
    <<NewSp(NextShapeId(slide), FALSE, prst, left, top, width, height, "none")>>
        \o slide

\* add_shape reading width and height as the right and the bottom edge.
MutShapeFromCorners(slide, prst, left, top, width, height) ==
    Append(slide, NewSp(NextShapeId(slide), FALSE, prst, left, top,
                        width - left, height - top, "none"))

\* add_shape keeping the shape within a canvas of SLIDE_WIDTH by
\* SLIDE_HEIGHT.
MutClampShape(slide, prst, left, top, width, height) ==
    LET l == IF left < 0 THEN 0 ELSE left
        t == IF top < 0 THEN 0 ELSE top
        w == IF l + width > SLIDE_WIDTH THEN SLIDE_WIDTH - l ELSE width
        h == IF t + height > SLIDE_HEIGHT THEN SLIDE_HEIGHT - t ELSE height
    IN  Append(slide, NewSp(NextShapeId(slide), FALSE, prst, l, t, w, h, "none"))

\* slide.shapes.add_shape(prst, left, top, width, height): a new autoshape
\* at the end of the shape tree, no fill of its own.  The geometry is
\* written as given (no range check).
add_shape(slide, prst, left, top, width, height) ==
    Append(slide,
           NewSp(NextShapeId(slide), FALSE, prst, left, top, width, height, "none"))

\* slide.shapes.add_textbox(left, top, width, height): a text box at the end
\* of the shape tree; its shape properties say <a:noFill/>.
add_textbox(slide, left, top, width, height) ==
    Append(slide,
           NewSp(NextShapeId(slide), TRUE, "rect", left, top, width, height, "noFill"))

\* shape.fill.solid(): keeps an existing <a:solidFill>, else replaces the
\* fill by an empty one.
fill_solid(e) ==
    IF e.fill = "solid" THEN e
    ELSE [e EXCEPT !.fill = "solid", !.rgb = NoColor, !.alpha = << >>]

\* shape.fill.fore_color needs a solid fill, else TypeError.
fore_color_raises(e) == e.fill # "solid"

\* A colour assignment that is lost.
MutFillRgbDropped(e, c) == e

\* shape.fill.fore_color.rgb = c: sets val of the <a:srgbClr>, adding the
\* node when missing; children of an existing node stay.
fill_rgb(e, c) == [e EXCEPT !.rgb = c]

\* shape.fill.background(): the fill becomes <a:noFill/>.
fill_background(e) ==
    [e EXCEPT !.fill = "noFill", !.rgb = NoColor, !.alpha = << >>]

\* shape.line.fill.background()
line_fill_background(e) == [e EXCEPT !.lnFill = "noFill", !.lnRgb = NoColor]

\* shape.line.color.rgb = c: the line gets a solid fill of that colour.
line_rgb(e, c) == [e EXCEPT !.lnFill = "solid", !.lnRgb = c]

\* shape.line.width = w
line_width(e, w) == [e EXCEPT !.lnWidth = <<w>>]

\* shape.rotation = degrees
set_rotation(e, v) == [e EXCEPT !.rot = v]

\* shape.adjustments[0] = v (v in 1/100000)
set_adjustment(e, v) == [e EXCEPT !.adj = <<v>>]

\* shape.text_frame.paragraphs[0].font.name = v
set_font_name(e, v) == [e EXCEPT !.text.font = v]

(***************************************************************************)
(* The opacity snippet, inlined in the source after a shape's fill:        *)
(*     spPr = shape._element.spPr                                          *)
(*     solidFill = spPr.find(qn('a:solidFill'))                            *)
(*     if solidFill is not None:                                           *)
(*         srgbClr = solidFill.find(qn('a:srgbClr'))                       *)
(*         if srgbClr is not None:                                         *)
(*             alpha = parse_xml('<a:alpha ... val="N"/>')                 *)
(*             srgbClr.append(alpha)                                       *)
(* `alpha' of an element is the sequence of <a:alpha> children of its fill *)
(* colour node, each by its val (1/1000 percent).                          *)
(***************************************************************************)
\* The snippet without its two `is not None' tests.
MutUnguardedAlpha(e, val) == [e EXCEPT !.alpha = Append(@, val)]

\* The snippet writing the percent itself instead of thousandths of it.
MutPercentAlpha(e, val) ==
    IF e.fill = "solid"
    THEN IF e.rgb # NoColor THEN [e EXCEPT !.alpha = Append(@, val \div 1000)] ELSE e
    ELSE e

\* The snippet putting a fresh colour node, black, in place of the fill's.
MutAlphaNewColourNode(e, val) ==
    IF e.fill = "solid"
    THEN IF e.rgb # NoColor
         THEN [e EXCEPT !.alpha = Append(@, val), !.rgb = <<0, 0, 0>>]
         ELSE e
    ELSE e

\* The snippet writing ten times the value.
MutAlphaTenfold(e, val) ==
    IF e.fill = "solid"
    THEN IF e.rgb # NoColor THEN [e EXCEPT !.alpha = Append(@, val * 10)] ELSE e
    ELSE e

InjectAlpha(e, val) ==
    IF e.fill = "solid"
    THEN IF e.rgb # NoColor THEN [e EXCEPT !.alpha = Append(@, val)] ELSE e
    ELSE e

\* The snippet's val for an opacity of p percent ("70000" for 70 %).
AlphaVal(p) == p * 1000

\* add_text_box also taking the outline off the shapes already there.
MutRestyleTextBox(slide, left, top, width, height, text, size, rgb, bold, font, align) ==
    LET s == add_textbox(slide, left, top, width, height)
        n == Len(s)
    IN  [i \in 1..n |->
            IF i = n
            THEN [s[i] EXCEPT !.text = [wrap |-> TRUE, text |-> text,
                                        size |-> size, rgb |-> rgb, bold |-> bold,
                                        font |-> font, align |-> align]]
            ELSE [s[i] EXCEPT !.lnFill = "noFill"]]

\* add_text_box also giving the box a fill of its text colour at 15 %.
MutTextBoxWithOpacity(slide, left, top, width, height, text, size, rgb, bold, font, align) ==
    LET s == add_textbox(slide, left, top, width, height)
    IN  [s EXCEPT ![Len(s)] =
            [InjectAlpha(fill_rgb(fill_solid(@), rgb), 15000) EXCEPT !.text =
                [wrap |-> TRUE, text |-> text, size |-> size, rgb |-> rgb,
                 bold |-> bold, font |-> font, align |-> align]]]

(***************************************************************************)
(* add_text_box of the source: a text box with one styled paragraph.       *)
(***************************************************************************)
add_text_box(slide, left, top, width, height, text, size, rgb, bold, font, align) ==
    LET s == add_textbox(slide, left, top, width, height)
    IN  [s EXCEPT ![Len(s)].text =
            [wrap |-> TRUE, text |-> text, size |-> size, rgb |-> rgb,
             bold |-> bold, font |-> font, align |-> align]]

(***************************************************************************)
(* add_shape_with_opacity of the source.  The opacity argument is not      *)
(* used by the function body.  line_color is NoColor for None.             *)
(***************************************************************************)
add_shape_with_opacity(slide, prst, left, top, width, height, fill_color, opacity, line_color) ==
    LET s == add_shape(slide, prst, left, top, width, height)
        n == Len(s)
        f == fill_rgb(fill_solid(s[n]), fill_color)
    IN  [s EXCEPT ![n] =
            IF line_color # NoColor
            THEN line_width(line_rgb(f, line_color), 12700)
            ELSE line_fill_background(f)]

(***************************************************************************)
(* Presentation-level helpers: the statements act on the last slide.       *)
(***************************************************************************)
CurSlide(p) == p.slides[Len(p.slides)]

WithCurSlide(p, slide) == [p EXCEPT !.slides[Len(p.slides)] = slide]

OnShape(p, h, e) == [p EXCEPT !.slides[Len(p.slides)][h] = e]

\* add_slide putting the new slide in front of the others.
MutAddSlideFirst(p) == [p EXCEPT !.slides = << << >> >> \o @]

add_slide(p) == [p EXCEPT !.slides = Append(@, << >>)]

(***************************************************************************)
(* The five deck builds, instruction by instruction.                      *)
(***************************************************************************)
AVEMO_GRAY_DARK == <<51, 51, 51>>

AVEMO_GRAY_MID == <<102, 102, 102>>

AVEMO_GRAY_LIGHT == <<245, 245, 245>>

\* create_presentation_1 (source lines 72-320)
Deck1 ==
    <<
      \* the new presentation and its canvas (source lines 72-74)
      [op |-> "Presentation", ln |-> 72],
      [op |-> "slide_width", ln |-> 73, v |-> SLIDE_WIDTH],
      [op |-> "slide_height", ln |-> 74, v |-> SLIDE_HEIGHT],
      \* slide 1 (source lines 77-130)
      [op |-> "add_slide", ln |-> 77],
      [op |-> "add_shape", ln |-> 79, prst |-> "RECTANGLE", left |-> 0, top |-> 0, width |-> SLIDE_WIDTH, height |-> SLIDE_HEIGHT],
      [op |-> "fill_solid", ln |-> 80, h |-> 1],
      [op |-> "fill_rgb", ln |-> 81, h |-> 1, rgb |-> <<13, 13, 13>>],
      [op |-> "line_fill_background", ln |-> 82, h |-> 1],
      [op |-> "add_shape", ln |-> 85, prst |-> "RECTANGLE", left |-> 0, top |-> 0, width |-> SLIDE_WIDTH, height |-> 137160],
      [op |-> "fill_solid", ln |-> 86, h |-> 2],
      [op |-> "fill_rgb", ln |-> 87, h |-> 2, rgb |-> AVEMO_ORANGE],
      [op |-> "line_fill_background", ln |-> 88, h |-> 2],
      [op |-> "add_shape", ln |-> 91, prst |-> "OVAL", left |-> 7315200, top |-> 914400, width |-> 5486400, height |-> 5486400],
      [op |-> "fill_solid", ln |-> 92, h |-> 3],
      [op |-> "fill_rgb", ln |-> 93, h |-> 3, rgb |-> <<255, 121, 50>>],
      [op |-> "alpha", ln |-> 96, h |-> 3, val |-> 15000],
      [op |-> "line_fill_background", ln |-> 103, h |-> 3],
      [op |-> "add_text_box", ln |-> 106, left |-> 731520, top |-> 2011680, width |-> 9144000, height |-> 1371600, text |-> "Fahrersoftware", size |-> 1219200, rgb |-> AVEMO_WHITE, bold |-> TRUE, font |-> "Arial", align |-> "LEFT"],
      [op |-> "font_name", ln |-> 108, h |-> 4, v |-> "Arial Black"],
      [op |-> "add_text_box", ln |-> 111, left |-> 731520, top |-> 3657600, width |-> 7315200, height |-> 731520, text |-> "Die Zukunft der Fahrzeugdisposition", size |-> 406400, rgb |-> AVEMO_ORANGE, bold |-> TRUE, font |-> "Arial", align |-> "LEFT"],
      [op |-> "add_shape", ln |-> 115, prst |-> "ROUNDED_RECTANGLE", left |-> 731520, top |-> 4754880, width |-> 6400800, height |-> 1371600],
      [op |-> "fill_solid", ln |-> 116, h |-> 6],
      [op |-> "fill_rgb", ln |-> 117, h |-> 6, rgb |-> <<26, 26, 26>>],
      [op |-> "line_rgb", ln |-> 118, h |-> 6, rgb |-> <<255, 121, 50>>],
      [op |-> "line_width", ln |-> 119, h |-> 6, v |-> 25400],
      [op |-> "alpha", ln |-> 121, h |-> 6, val |-> 70000],
      [op |-> "add_text_box", ln |-> 129, left |-> 914400, top |-> 5029200, width |-> 6035040, height |-> 914400, text |-> "Eine Software fuer alle Standorte", size |-> 254000, rgb |-> AVEMO_WHITE, bold |-> FALSE, font |-> "Arial", align |-> "LEFT"],
      \* slide 2 (source lines 133-185)
      [op |-> "add_slide", ln |-> 133],
      [op |-> "add_shape", ln |-> 134, prst |-> "RECTANGLE", left |-> 0, top |-> 0, width |-> SLIDE_WIDTH, height |-> SLIDE_HEIGHT],
      [op |-> "fill_solid", ln |-> 135, h |-> 1],
      [op |-> "fill_rgb", ln |-> 136, h |-> 1, rgb |-> <<13, 13, 13>>],
      [op |-> "line_fill_background", ln |-> 137, h |-> 1],
      [op |-> "add_shape", ln |-> 140, prst |-> "RECTANGLE", left |-> 0, top |-> 0, width |-> 4572000, height |-> SLIDE_HEIGHT],
      [op |-> "fill_solid", ln |-> 141, h |-> 2],
      [op |-> "fill_rgb", ln |-> 142, h |-> 2, rgb |-> <<20, 20, 20>>],
      [op |-> "line_fill_background", ln |-> 143, h |-> 2],
      [op |-> "add_text_box", ln |-> 146, left |-> 457200, top |-> 731520, width |-> 3657600, height |-> 548640, text |-> "DAS PROBLEM", size |-> 177800, rgb |-> AVEMO_ORANGE, bold |-> TRUE, font |-> "Arial", align |-> "LEFT"],
      [op |-> "add_text_box", ln |-> 149, left |-> 457200, top |-> 1371600, width |-> 3657600, height |-> 914400, text |-> "Aktuelle Herausforderungen", size |-> 457200, rgb |-> AVEMO_WHITE, bold |-> TRUE, font |-> "Arial", align |-> "LEFT"],
      [op |-> "add_shape", ln |-> 163, prst |-> "ROUNDED_RECTANGLE", left |-> 457200, top |-> 2743200, width |-> 3657600, height |-> 777240],
      [op |-> "fill_solid", ln |-> 164, h |-> 5],
      [op |-> "fill_rgb", ln |-> 165, h |-> 5, rgb |-> <<34, 34, 34>>],
      [op |-> "line_rgb", ln |-> 166, h |-> 5, rgb |-> <<255, 121, 50>>],
      [op |-> "line_width", ln |-> 167, h |-> 5, v |-> 12700],
      [op |-> "alpha", ln |-> 168, h |-> 5, val |-> 60000],
      [op |-> "add_text_box", ln |-> 176, left |-> 640080, top |-> 2880360, width |-> 3291840, height |-> 274320, text |-> "Isolierte Standorte", size |-> 203200, rgb |-> AVEMO_WHITE, bold |-> TRUE, font |-> "Arial", align |-> "LEFT"],
      [op |-> "add_text_box", ln |-> 178, left |-> 640080, top |-> 3154680, width |-> 3291840, height |-> 274320, text |-> "Keine Vernetzung zwischen den Niederlassungen", size |-> 139700, rgb |-> <<170, 170, 170>>, bold |-> FALSE, font |-> "Arial", align |-> "LEFT"],
      [op |-> "add_shape", ln |-> 163, prst |-> "ROUNDED_RECTANGLE", left |-> 457200, top |-> 3657600, width |-> 3657600, height |-> 777240],
      [op |-> "fill_solid", ln |-> 164, h |-> 8],
      [op |-> "fill_rgb", ln |-> 165, h |-> 8, rgb |-> <<34, 34, 34>>],
      [op |-> "line_rgb", ln |-> 166, h |-> 8, rgb |-> <<255, 121, 50>>],
      [op |-> "line_width", ln |-> 167, h |-> 8, v |-> 12700],
      [op |-> "alpha", ln |-> 168, h |-> 8, val |-> 60000],
      [op |-> "add_text_box", ln |-> 176, left |-> 640080, top |-> 3794760, width |-> 3291840, height |-> 274320, text |-> "Manuelle Prozesse", size |-> 203200, rgb |-> AVEMO_WHITE, bold |-> TRUE, font |-> "Arial", align |-> "LEFT"],
      [op |-> "add_text_box", ln |-> 178, left |-> 640080, top |-> 4069080, width |-> 3291840, height |-> 274320, text |-> "Excel, Outlook & Kalender fuehren zu Chaos", size |-> 139700, rgb |-> <<170, 170, 170>>, bold |-> FALSE, font |-> "Arial", align |-> "LEFT"],
      [op |-> "add_shape", ln |-> 163, prst |-> "ROUNDED_RECTANGLE", left |-> 457200, top |-> 4572000, width |-> 3657600, height |-> 777240],
      [op |-> "fill_solid", ln |-> 164, h |-> 11],
      [op |-> "fill_rgb", ln |-> 165, h |-> 11, rgb |-> <<34, 34, 34>>],
      [op |-> "line_rgb", ln |-> 166, h |-> 11, rgb |-> <<255, 121, 50>>],
      [op |-> "line_width", ln |-> 167, h |-> 11, v |-> 12700],
      [op |-> "alpha", ln |-> 168, h |-> 11, val |-> 60000],
      [op |-> "add_text_box", ln |-> 176, left |-> 640080, top |-> 4709160, width |-> 3291840, height |-> 274320, text |-> "Fehlende Daten", size |-> 203200, rgb |-> AVEMO_WHITE, bold |-> TRUE, font |-> "Arial", align |-> "LEFT"],
      [op |-> "add_text_box", ln |-> 178, left |-> 640080, top |-> 4983480, width |-> 3291840, height |-> 274320, text |-> "Keine KPIs, keine Optimierung moeglich", size |-> 139700, rgb |-> <<170, 170, 170>>, bold |-> FALSE, font |-> "Arial", align |-> "LEFT"],
      [op |-> "add_shape", ln |-> 163, prst |-> "ROUNDED_RECTANGLE", left |-> 457200, top |-> 5486400, width |-> 3657600, height |-> 777240],
      [op |-> "fill_solid", ln |-> 164, h |-> 14],
      [op |-> "fill_rgb", ln |-> 165, h |-> 14, rgb |-> <<34, 34, 34>>],
      [op |-> "line_rgb", ln |-> 166, h |-> 14, rgb |-> <<255, 121, 50>>],
      [op |-> "line_width", ln |-> 167, h |-> 14, v |-> 12700],
      [op |-> "alpha", ln |-> 168, h |-> 14, val |-> 60000],
      [op |-> "add_text_box", ln |-> 176, left |-> 640080, top |-> 5623560, width |-> 3291840, height |-> 274320, text |-> "Hohe Leerlaufzeit", size |-> 203200, rgb |-> AVEMO_WHITE, bold |-> TRUE, font |-> "Arial", align |-> "LEFT"],
      [op |-> "add_text_box", ln |-> 178, left |-> 640080, top |-> 5897880, width |-> 3291840, height |-> 274320, text |-> "2,5 Stunden taeglich pro Fahrzeug", size |-> 139700, rgb |-> <<170, 170, 170>>, bold |-> FALSE, font |-> "Arial", align |-> "LEFT"],
      [op |-> "add_text_box", ln |-> 182, left |-> 5029200, top |-> 2743200, width |-> 6400800, height |-> 1828800, text |-> "30 Tage", size |-> 1524000, rgb |-> AVEMO_ORANGE, bold |-> TRUE, font |-> "Arial", align |-> "CENTER"],
      [op |-> "add_text_box", ln |-> 184, left |-> 5029200, top |-> 4572000, width |-> 6400800, height |-> 457200, text |-> "durchschnittliche Wartezeit auf Fahrzeuge", size |-> 254000, rgb |-> AVEMO_WHITE, bold |-> FALSE, font |-> "Arial", align |-> "CENTER"],
      \* slide 3 (source lines 188-233)
      [op |-> "add_slide", ln |-> 188],
      [op |-> "add_shape", ln |-> 189, prst |-> "RECTANGLE", left |-> 0, top |-> 0, width |-> SLIDE_WIDTH, height |-> SLIDE_HEIGHT],
      [op |-> "fill_solid", ln |-> 190, h |-> 1],
      [op |-> "fill_rgb", ln |-> 191, h |-> 1, rgb |-> <<13, 13, 13>>],
      [op |-> "line_fill_background", ln |-> 192, h |-> 1],
      [op |-> "add_shape", ln |-> 195, prst |-> "RECTANGLE", left |-> -1828800, top |-> 4572000, width |-> 18288000, height |-> 3657600],
      [op |-> "fill_solid", ln |-> 196, h |-> 2],
      [op |-> "fill_rgb", ln |-> 197, h |-> 2, rgb |-> <<255, 121, 50>>],
      [op |-> "rotation", ln |-> 198, h |-> 2, v |-> -15],
      [op |-> "line_fill_background", ln |-> 199, h |-> 2],
      [op |-> "alpha", ln |-> 200, h |-> 2, val |-> 20000],
      [op |-> "add_text_box", ln |-> 208, left |-> 731520, top |-> 731520, width |-> 4572000, height |-> 548640, text |-> "DIE LOeSUNG", size |-> 177800, rgb |-> AVEMO_ORANGE, bold |-> TRUE, font |-> "Arial", align |-> "LEFT"],
      [op |-> "add_text_box", ln |-> 210, left |-> 731520, top |-> 1371600, width |-> 9144000, height |-> 914400, text |-> "Eine Software fuer alle Standorte", size |-> 558800, rgb |-> AVEMO_WHITE, bold |-> TRUE, font |-> "Arial", align |-> "LEFT"],
      [op |-> "add_shape", ln |-> 225, prst |-> "RECTANGLE", left |-> 731520, top |-> 2743200, width |-> 73152, height |-> 1097280],
      [op |-> "fill_solid", ln |-> 226, h |-> 5],
      [op |-> "fill_rgb", ln |-> 227, h |-> 5, rgb |-> AVEMO_ORANGE],
      [op |-> "line_fill_background", ln |-> 228, h |-> 5],
      [op |-> "add_text_box", ln |-> 230, left |-> 914400, top |-> 2834640, width |-> 4572000, height |-> 365760, text |-> "Synergien nutzen", size |-> 279400, rgb |-> AVEMO_WHITE, bold |-> TRUE, font |-> "Arial", align |-> "LEFT"],
      [op |-> "add_text_box", ln |-> 232, left |-> 914400, top |-> 3246120, width |-> 4572000, height |-> 457200, text |-> "Vernetzung aller Standorte", size |-> 177800, rgb |-> <<187, 187, 187>>, bold |-> FALSE, font |-> "Arial", align |-> "LEFT"],
      [op |-> "add_shape", ln |-> 225, prst |-> "RECTANGLE", left |-> 6217920, top |-> 2743200, width |-> 73152, height |-> 1097280],
      [op |-> "fill_solid", ln |-> 226, h |-> 8],
      [op |-> "fill_rgb", ln |-> 227, h |-> 8, rgb |-> AVEMO_ORANGE],
      [op |-> "line_fill_background", ln |-> 228, h |-> 8],
      [op |-> "add_text_box", ln |-> 230, left |-> 6400800, top |-> 2834640, width |-> 4572000, height |-> 365760, text |-> "Effizienz steigern", size |-> 279400, rgb |-> AVEMO_WHITE, bold |-> TRUE, font |-> "Arial", align |-> "LEFT"],
      [op |-> "add_text_box", ln |-> 232, left |-> 6400800, top |-> 3246120, width |-> 4572000, height |-> 457200, text |-> "Optimierte Fahrzeugnutzung", size |-> 177800, rgb |-> <<187, 187, 187>>, bold |-> FALSE, font |-> "Arial", align |-> "LEFT"],
      [op |-> "add_shape", ln |-> 225, prst |-> "RECTANGLE", left |-> 731520, top |-> 4389120, width |-> 73152, height |-> 1097280],
      [op |-> "fill_solid", ln |-> 226, h |-> 11],
      [op |-> "fill_rgb", ln |-> 227, h |-> 11, rgb |-> AVEMO_ORANGE],
      [op |-> "line_fill_background", ln |-> 228, h |-> 11],
      [op |-> "add_text_box", ln |-> 230, left |-> 914400, top |-> 4480560, width |-> 4572000, height |-> 365760, text |-> "Automatisierung", size |-> 279400, rgb |-> AVEMO_WHITE, bold |-> TRUE, font |-> "Arial", align |-> "LEFT"],
      [op |-> "add_text_box", ln |-> 232, left |-> 914400, top |-> 4892040, width |-> 4572000, height |-> 457200, text |-> "Weniger manuelle Arbeit", size |-> 177800, rgb |-> <<187, 187, 187>>, bold |-> FALSE, font |-> "Arial", align |-> "LEFT"],
      [op |-> "add_shape", ln |-> 225, prst |-> "RECTANGLE", left |-> 6217920, top |-> 4389120, width |-> 73152, height |-> 1097280],
      [op |-> "fill_solid", ln |-> 226, h |-> 14],
      [op |-> "fill_rgb", ln |-> 227, h |-> 14, rgb |-> AVEMO_ORANGE],
      [op |-> "line_fill_background", ln |-> 228, h |-> 14],
      [op |-> "add_text_box", ln |-> 230, left |-> 6400800, top |-> 4480560, width |-> 4572000, height |-> 365760, text |-> "Kosteneinsparung", size |-> 279400, rgb |-> AVEMO_WHITE, bold |-> TRUE, font |-> "Arial", align |-> "LEFT"],
      [op |-> "add_text_box", ln |-> 232, left |-> 6400800, top |-> 4892040, width |-> 4572000, height |-> 457200, text |-> "Potenzial von 260.000 EUR pro Jahr", size |-> 177800, rgb |-> <<187, 187, 187>>, bold |-> FALSE, font |-> "Arial", align |-> "LEFT"],
      \* slide 4 (source lines 236-282)
      [op |-> "add_slide", ln |-> 236],
      [op |-> "add_shape", ln |-> 237, prst |-> "RECTANGLE", left |-> 0, top |-> 0, width |-> SLIDE_WIDTH, height |-> SLIDE_HEIGHT],
      [op |-> "fill_solid", ln |-> 238, h |-> 1],
      [op |-> "fill_rgb", ln |-> 239, h |-> 1, rgb |-> <<13, 13, 13>>],
      [op |-> "line_fill_background", ln |-> 240, h |-> 1],
      [op |-> "add_text_box", ln |-> 242, left |-> 731520, top |-> 548640, width |-> 5486400, height |-> 457200, text |-> "MINIMUM VIABLE PRODUCT", size |-> 152400, rgb |-> AVEMO_ORANGE, bold |-> TRUE, font |-> "Arial", align |-> "LEFT"],
      [op |-> "add_text_box", ln |-> 244, left |-> 731520, top |-> 1097280, width |-> 9144000, height |-> 731520, text |-> "Die Kernfunktionen", size |-> 508000, rgb |-> AVEMO_WHITE, bold |-> TRUE, font |-> "Arial", align |-> "LEFT"],
      [op |-> "add_shape", ln |-> 263, prst |-> "ROUNDED_RECTANGLE", left |-> 731520, top |-> 2286000, width |-> 3291840, height |-> 1645920],
      [op |-> "fill_solid", ln |-> 264, h |-> 4],
      [op |-> "fill_rgb", ln |-> 265, h |-> 4, rgb |-> <<26, 26, 26>>],
      [op |-> "line_rgb", ln |-> 266, h |-> 4, rgb |-> <<255, 121, 50>>],
      [op |-> "line_width", ln |-> 267, h |-> 4, v |-> 19050],
      [op |-> "alpha", ln |-> 268, h |-> 4, val |-> 50000],
      [op |-> "add_text_box", ln |-> 277, left |-> 914400, top |-> 2423160, width |-> 457200, height |-> 457200, text |-> "01", size |-> 355600, rgb |-> AVEMO_ORANGE, bold |-> TRUE, font |-> "Arial", align |-> "LEFT"],
      [op |-> "add_text_box", ln |-> 281, left |-> 914400, top |-> 2926080, width |-> 2926080, height |-> 822960, text |-> "Optimierter Planungs- algorithmus", size |-> 228600, rgb |-> AVEMO_WHITE, bold |-> TRUE, font |-> "Arial", align |-> "LEFT"],
      [op |-> "add_shape", ln |-> 263, prst |-> "ROUNDED_RECTANGLE", left |-> 4389120, top |-> 2286000, width |-> 3291840, height |-> 1645920],
      [op |-> "fill_solid", ln |-> 264, h |-> 7],
      [op |-> "fill_rgb", ln |-> 265, h |-> 7, rgb |-> <<26, 26, 26>>],
      [op |-> "line_rgb", ln |-> 266, h |-> 7, rgb |-> <<255, 121, 50>>],
      [op |-> "line_width", ln |-> 267, h |-> 7, v |-> 19050],
      [op |-> "alpha", ln |-> 268, h |-> 7, val |-> 50000],
      [op |-> "add_text_box", ln |-> 277, left |-> 4572000, top |-> 2423160, width |-> 457200, height |-> 457200, text |-> "02", size |-> 355600, rgb |-> AVEMO_ORANGE, bold |-> TRUE, font |-> "Arial", align |-> "LEFT"],
      [op |-> "add_text_box", ln |-> 281, left |-> 4572000, top |-> 2926080, width |-> 2926080, height |-> 822960, text |-> "Intuitive Driver App", size |-> 228600, rgb |-> AVEMO_WHITE, bold |-> TRUE, font |-> "Arial", align |-> "LEFT"],
      [op |-> "add_shape", ln |-> 263, prst |-> "ROUNDED_RECTANGLE", left |-> 8046720, top |-> 2286000, width |-> 3291840, height |-> 1645920],
      [op |-> "fill_solid", ln |-> 264, h |-> 10],
      [op |-> "fill_rgb", ln |-> 265, h |-> 10, rgb |-> <<26, 26, 26>>],
      [op |-> "line_rgb", ln |-> 266, h |-> 10, rgb |-> <<255, 121, 50>>],
      [op |-> "line_width", ln |-> 267, h |-> 10, v |-> 19050],
      [op |-> "alpha", ln |-> 268, h |-> 10, val |-> 50000],
      [op |-> "add_text_box", ln |-> 277, left |-> 8229600, top |-> 2423160, width |-> 457200, height |-> 457200, text |-> "03", size |-> 355600, rgb |-> AVEMO_ORANGE, bold |-> TRUE, font |-> "Arial", align |-> "LEFT"],
      [op |-> "add_text_box", ln |-> 281, left |-> 8229600, top |-> 2926080, width |-> 2926080, height |-> 822960, text |-> "Modernes Web- Backoffice", size |-> 228600, rgb |-> AVEMO_WHITE, bold |-> TRUE, font |-> "Arial", align |-> "LEFT"],
      [op |-> "add_shape", ln |-> 263, prst |-> "ROUNDED_RECTANGLE", left |-> 731520, top |-> 4297680, width |-> 3291840, height |-> 1645920],
      [op |-> "fill_solid", ln |-> 264, h |-> 13],
      [op |-> "fill_rgb", ln |-> 265, h |-> 13, rgb |-> <<26, 26, 26>>],
      [op |-> "line_rgb", ln |-> 266, h |-> 13, rgb |-> <<255, 121, 50>>],
      [op |-> "line_width", ln |-> 267, h |-> 13, v |-> 19050],
      [op |-> "alpha", ln |-> 268, h |-> 13, val |-> 50000],
      [op |-> "add_text_box", ln |-> 277, left |-> 914400, top |-> 4434840, width |-> 457200, height |-> 457200, text |-> "04", size |-> 355600, rgb |-> AVEMO_ORANGE, bold |-> TRUE, font |-> "Arial", align |-> "LEFT"],
      [op |-> "add_text_box", ln |-> 281, left |-> 914400, top |-> 4937760, width |-> 2926080, height |-> 822960, text |-> "Integration externer Dienstleister", size |-> 228600, rgb |-> AVEMO_WHITE, bold |-> TRUE, font |-> "Arial", align |-> "LEFT"],
      [op |-> "add_shape", ln |-> 263, prst |-> "ROUNDED_RECTANGLE", left |-> 4389120, top |-> 4297680, width |-> 3291840, height |-> 1645920],
      [op |-> "fill_solid", ln |-> 264, h |-> 16],
      [op |-> "fill_rgb", ln |-> 265, h |-> 16, rgb |-> <<26, 26, 26>>],
      [op |-> "line_rgb", ln |-> 266, h |-> 16, rgb |-> <<255, 121, 50>>],
      [op |-> "line_width", ln |-> 267, h |-> 16, v |-> 19050],
      [op |-> "alpha", ln |-> 268, h |-> 16, val |-> 50000],
      [op |-> "add_text_box", ln |-> 277, left |-> 4572000, top |-> 4434840, width |-> 457200, height |-> 457200, text |-> "05", size |-> 355600, rgb |-> AVEMO_ORANGE, bold |-> TRUE, font |-> "Arial", align |-> "LEFT"],
      [op |-> "add_text_box", ln |-> 281, left |-> 4572000, top |-> 4937760, width |-> 2926080, height |-> 822960, text |-> "Live-Monitoring Dashboard", size |-> 228600, rgb |-> AVEMO_WHITE, bold |-> TRUE, font |-> "Arial", align |-> "LEFT"],
      [op |-> "add_shape", ln |-> 263, prst |-> "ROUNDED_RECTANGLE", left |-> 8046720, top |-> 4297680, width |-> 3291840, height |-> 1645920],
      [op |-> "fill_solid", ln |-> 264, h |-> 19],
      [op |-> "fill_rgb", ln |-> 265, h |-> 19, rgb |-> <<26, 26, 26>>],
      [op |-> "line_rgb", ln |-> 266, h |-> 19, rgb |-> <<255, 121, 50>>],
      [op |-> "line_width", ln |-> 267, h |-> 19, v |-> 19050],
      [op |-> "alpha", ln |-> 268, h |-> 19, val |-> 50000],
      [op |-> "add_text_box", ln |-> 277, left |-> 8229600, top |-> 4434840, width |-> 457200, height |-> 457200, text |-> "06", size |-> 355600, rgb |-> AVEMO_ORANGE, bold |-> TRUE, font |-> "Arial", align |-> "LEFT"],
      [op |-> "add_text_box", ln |-> 281, left |-> 8229600, top |-> 4937760, width |-> 2926080, height |-> 822960, text |-> "Automatisiertes Reporting", size |-> 228600, rgb |-> AVEMO_WHITE, bold |-> TRUE, font |-> "Arial", align |-> "LEFT"],
      \* slide 5 (source lines 285-317)
      [op |-> "add_slide", ln |-> 285],
      [op |-> "add_shape", ln |-> 286, prst |-> "RECTANGLE", left |-> 0, top |-> 0, width |-> SLIDE_WIDTH, height |-> SLIDE_HEIGHT],
      [op |-> "fill_solid", ln |-> 287, h |-> 1],
      [op |-> "fill_rgb", ln |-> 288, h |-> 1, rgb |-> <<13, 13, 13>>],
      [op |-> "line_fill_background", ln |-> 289, h |-> 1],
      [op |-> "add_shape", ln |-> 292, prst |-> "OVAL", left |-> 6400800, top |-> -1828800, width |-> 9144000, height |-> 10972800],
      [op |-> "fill_solid", ln |-> 293, h |-> 2],
      [op |-> "fill_rgb", ln |-> 294, h |-> 2, rgb |-> <<255, 121, 50>>],
      [op |-> "line_fill_background", ln |-> 295, h |-> 2],
      [op |-> "alpha", ln |-> 296, h |-> 2, val |-> 20000],
      [op |-> "add_text_box", ln |-> 304, left |-> 731520, top |-> 2286000, width |-> 9144000, height |-> 1097280, text |-> "Bereit fuer die", size |-> 609600, rgb |-> AVEMO_WHITE, bold |-> TRUE, font |-> "Arial", align |-> "LEFT"],
      [op |-> "add_text_box", ln |-> 306, left |-> 731520, top |-> 3200400, width |-> 9144000, height |-> 1371600, text |-> "Zukunft?", size |-> 1219200, rgb |-> AVEMO_ORANGE, bold |-> TRUE, font |-> "Arial", align |-> "LEFT"],
      [op |-> "add_text_box", ln |-> 309, left |-> 731520, top |-> 5029200, width |-> 5486400, height |-> 914400, text |-> "Gemeinsam gestalten wir die digitale Transformation Ihrer Fahrzeugdisposition.", size |-> 228600, rgb |-> <<204, 204, 204>>, bold |-> FALSE, font |-> "Arial", align |-> "LEFT"],
      [op |-> "add_shape", ln |-> 314, prst |-> "RECTANGLE", left |-> 731520, top |-> 6217920, width |-> 1828800, height |-> 54864],
      [op |-> "fill_solid", ln |-> 315, h |-> 6],
      [op |-> "fill_rgb", ln |-> 316, h |-> 6, rgb |-> AVEMO_ORANGE],
      [op |-> "line_fill_background", ln |-> 317, h |-> 6],
      \* save and acknowledgement (source lines 319-320)
      [op |-> "save", ln |-> 319, path |-> "/root/fahrerplanung/presentations/design-1-cinematic-dark.pptx"],
      [op |-> "print", ln |-> 320, msg |-> "Created: design-1-cinematic-dark.pptx"]>>

\* create_presentation_2 (source lines 331-569)
Deck2 ==
    <<
      \* the new presentation and its canvas (source lines 331-333)
      [op |-> "Presentation", ln |-> 331],
      [op |-> "slide_width", ln |-> 332, v |-> SLIDE_WIDTH],
      [op |-> "slide_height", ln |-> 333, v |-> SLIDE_HEIGHT],
      \* slide 1 (source lines 336-381)
      [op |-> "add_slide", ln |-> 336],
      [op |-> "add_shape", ln |-> 337, prst |-> "RECTANGLE", left |-> 0, top |-> 0, width |-> SLIDE_WIDTH, height |-> SLIDE_HEIGHT],
      [op |-> "fill_solid", ln |-> 338, h |-> 1],
      [op |-> "fill_rgb", ln |-> 339, h |-> 1, rgb |-> AVEMO_WHITE],
      [op |-> "line_fill_background", ln |-> 340, h |-> 1],
      [op |-> "add_shape", ln |-> 343, prst |-> "RECTANGLE", left |-> -914400, top |-> -914400, width |-> 7315200, height |-> 9144000],
      [op |-> "fill_solid", ln |-> 344, h |-> 2],
      [op |-> "fill_rgb", ln |-> 345, h |-> 2, rgb |-> AVEMO_GRAY_LIGHT],
      [op |-> "line_fill_background", ln |-> 346, h |-> 2],
      [op |-> "add_shape", ln |-> 349, prst |-> "ROUNDED_RECTANGLE", left |-> 914400, top |-> 1828800, width |-> 7315200, height |-> 3200400],
      [op |-> "fill_solid", ln |-> 350, h |-> 3],
      [op |-> "fill_rgb", ln |-> 351, h |-> 3, rgb |-> AVEMO_WHITE],
      [op |-> "line_rgb", ln |-> 352, h |-> 3, rgb |-> <<224, 224, 224>>],
      [op |-> "line_width", ln |-> 353, h |-> 3, v |-> 12700],
      [op |-> "alpha", ln |-> 354, h |-> 3, val |-> 85000],
      [op |-> "add_shape", ln |-> 363, prst |-> "OVAL", left |-> 1371600, top |-> 2286000, width |-> 274320, height |-> 274320],
      [op |-> "fill_solid", ln |-> 364, h |-> 4],
      [op |-> "fill_rgb", ln |-> 365, h |-> 4, rgb |-> AVEMO_ORANGE],
      [op |-> "line_fill_background", ln |-> 366, h |-> 4],
      [op |-> "add_text_box", ln |-> 368, left |-> 1828800, top |-> 2194560, width |-> 5486400, height |-> 457200, text |-> "Fahrersoftware", size |-> 177800, rgb |-> AVEMO_GRAY_MID, bold |-> TRUE, font |-> "Arial", align |-> "LEFT"],
      [op |-> "add_text_box", ln |-> 371, left |-> 1371600, top |-> 2926080, width |-> 6400800, height |-> 1097280, text |-> "Die Zukunft der Fahrzeugdisposition", size |-> 609600, rgb |-> AVEMO_BLACK, bold |-> TRUE, font |-> "Arial", align |-> "LEFT"],
      [op |-> "add_text_box", ln |-> 374, left |-> 1371600, top |-> 4114800, width |-> 5486400, height |-> 548640, text |-> "Eine Software fuer alle Standorte", size |-> 254000, rgb |-> AVEMO_GRAY_MID, bold |-> FALSE, font |-> "Arial", align |-> "LEFT"],
      [op |-> "add_shape", ln |-> 378, prst |-> "RECTANGLE", left |-> 1371600, top |-> 4846320, width |-> 1371600, height |-> 45720],
      [op |-> "fill_solid", ln |-> 379, h |-> 8],
      [op |-> "fill_rgb", ln |-> 380, h |-> 8, rgb |-> AVEMO_ORANGE],
      [op |-> "line_fill_background", ln |-> 381, h |-> 8],
      \* slide 2 (source lines 384-437)
      [op |-> "add_slide", ln |-> 384],
      [op |-> "add_shape", ln |-> 385, prst |-> "RECTANGLE", left |-> 0, top |-> 0, width |-> SLIDE_WIDTH, height |-> SLIDE_HEIGHT],
      [op |-> "fill_solid", ln |-> 386, h |-> 1],
      [op |-> "fill_rgb", ln |-> 387, h |-> 1, rgb |-> AVEMO_WHITE],
      [op |-> "line_fill_background", ln |-> 388, h |-> 1],
      [op |-> "add_text_box", ln |-> 391, left |-> 731520, top |-> 548640, width |-> 3657600, height |-> 365760, text |-> "Aktuelle Situation", size |-> 406400, rgb |-> AVEMO_BLACK, bold |-> TRUE, font |-> "Arial", align |-> "LEFT"],
      [op |-> "add_shape", ln |-> 395, prst |-> "RECTANGLE", left |-> 731520, top |-> 1005840, width |-> 1097280, height |-> 54864],
      [op |-> "fill_solid", ln |-> 396, h |-> 3],
      [op |-> "fill_rgb", ln |-> 397, h |-> 3, rgb |-> AVEMO_ORANGE],
      [op |-> "line_fill_background", ln |-> 398, h |-> 3],
      [op |-> "add_shape", ln |-> 412, prst |-> "OVAL", left |-> 731520, top |-> 1463040, width |-> 457200, height |-> 457200],
      [op |-> "fill_solid", ln |-> 413, h |-> 4],
      [op |-> "fill_rgb", ln |-> 414, h |-> 4, rgb |-> AVEMO_ORANGE],
      [op |-> "line_fill_background", ln |-> 415, h |-> 4],
      [op |-> "add_text_box", ln |-> 417, left |-> 868680, top |-> 1536192, width |-> 274320, height |-> 274320, text |-> "1", size |-> 177800, rgb |-> AVEMO_WHITE, bold |-> TRUE, font |-> "Arial", align |-> "CENTER"],
      [op |-> "add_shape", ln |-> 421, prst |-> "ROUNDED_RECTANGLE", left |-> 1371600, top |-> 1371600, width |-> 10058400, height |-> 822960],
      [op |-> "fill_solid", ln |-> 422, h |-> 6],
      [op |-> "fill_rgb", ln |-> 423, h |-> 6, rgb |-> AVEMO_WHITE],
      [op |-> "line_rgb", ln |-> 424, h |-> 6, rgb |-> <<232, 232, 232>>],
      [op |-> "line_width", ln |-> 425, h |-> 6, v |-> 12700],
      [op |-> "alpha", ln |-> 426, h |-> 6, val |-> 90000],
      [op |-> "add_text_box", ln |-> 434, left |-> 1554480, top |-> 1508760, width |-> 2743200, height |-> 365760, text |-> "Isolierte Standorte", size |-> 228600, rgb |-> AVEMO_BLACK, bold |-> TRUE, font |-> "Arial", align |-> "LEFT"],
      [op |-> "add_text_box", ln |-> 436, left |-> 1554480, top |-> 1828800, width |-> 9144000, height |-> 365760, text |-> "Keine Vernetzung zwischen den Niederlassungen fuehrt zu Ineffizienz", size |-> 165100, rgb |-> AVEMO_GRAY_MID, bold |-> FALSE, font |-> "Arial", align |-> "LEFT"],
      [op |-> "add_shape", ln |-> 412, prst |-> "OVAL", left |-> 731520, top |-> 2468880, width |-> 457200, height |-> 457200],
      [op |-> "fill_solid", ln |-> 413, h |-> 9],
      [op |-> "fill_rgb", ln |-> 414, h |-> 9, rgb |-> AVEMO_GRAY_LIGHT],
      [op |-> "line_fill_background", ln |-> 415, h |-> 9],
      [op |-> "add_text_box", ln |-> 417, left |-> 868680, top |-> 2542032, width |-> 274320, height |-> 274320, text |-> "2", size |-> 177800, rgb |-> AVEMO_GRAY_MID, bold |-> TRUE, font |-> "Arial", align |-> "CENTER"],
      [op |-> "add_shape", ln |-> 421, prst |-> "ROUNDED_RECTANGLE", left |-> 1371600, top |-> 2377440, width |-> 10058400, height |-> 822960],
      [op |-> "fill_solid", ln |-> 422, h |-> 11],
      [op |-> "fill_rgb", ln |-> 423, h |-> 11, rgb |-> AVEMO_WHITE],
      [op |-> "line_rgb", ln |-> 424, h |-> 11, rgb |-> <<232, 232, 232>>],
      [op |-> "line_width", ln |-> 425, h |-> 11, v |-> 12700],
      [op |-> "alpha", ln |-> 426, h |-> 11, val |-> 90000],
      [op |-> "add_text_box", ln |-> 434, left |-> 1554480, top |-> 2514600, width |-> 2743200, height |-> 365760, text |-> "Manuelle Prozesse", size |-> 228600, rgb |-> AVEMO_BLACK, bold |-> TRUE, font |-> "Arial", align |-> "LEFT"],
      [op |-> "add_text_box", ln |-> 436, left |-> 1554480, top |-> 2834640, width |-> 9144000, height |-> 365760, text |-> "Abhaengig von Excel, Outlook und Kalendern", size |-> 165100, rgb |-> AVEMO_GRAY_MID, bold |-> FALSE, font |-> "Arial", align |-> "LEFT"],
      [op |-> "add_shape", ln |-> 412, prst |-> "OVAL", left |-> 731520, top |-> 3474720, width |-> 457200, height |-> 457200],
      [op |-> "fill_solid", ln |-> 413, h |-> 14],
      [op |-> "fill_rgb", ln |-> 414, h |-> 14, rgb |-> AVEMO_GRAY_LIGHT],
      [op |-> "line_fill_background", ln |-> 415, h |-> 14],
      [op |-> "add_text_box", ln |-> 417, left |-> 868680, top |-> 3547872, width |-> 274320, height |-> 274320, text |-> "3", size |-> 177800, rgb |-> AVEMO_GRAY_MID, bold |-> TRUE, font |-> "Arial", align |-> "CENTER"],
      [op |-> "add_shape", ln |-> 421, prst |-> "ROUNDED_RECTANGLE", left |-> 1371600, top |-> 3383280, width |-> 10058400, height |-> 822960],
      [op |-> "fill_solid", ln |-> 422, h |-> 16],
      [op |-> "fill_rgb", ln |-> 423, h |-> 16, rgb |-> AVEMO_WHITE],
      [op |-> "line_rgb", ln |-> 424, h |-> 16, rgb |-> <<232, 232, 232>>],
      [op |-> "line_width", ln |-> 425, h |-> 16, v |-> 12700],
      [op |-> "alpha", ln |-> 426, h |-> 16, val |-> 90000],
      [op |-> "add_text_box", ln |-> 434, left |-> 1554480, top |-> 3520440, width |-> 2743200, height |-> 365760, text |-> "Fehlende Transparenz", size |-> 228600, rgb |-> AVEMO_BLACK, bold |-> TRUE, font |-> "Arial", align |-> "LEFT"],
      [op |-> "add_text_box", ln |-> 436, left |-> 1554480, top |-> 3840480, width |-> 9144000, height |-> 365760, text |-> "Keine KPIs fuer datengesteuerte Entscheidungen", size |-> 165100, rgb |-> AVEMO_GRAY_MID, bold |-> FALSE, font |-> "Arial", align |-> "LEFT"],
      [op |-> "add_shape", ln |-> 412, prst |-> "OVAL", left |-> 731520, top |-> 4480560, width |-> 457200, height |-> 457200],
      [op |-> "fill_solid", ln |-> 413, h |-> 19],
      [op |-> "fill_rgb", ln |-> 414, h |-> 19, rgb |-> AVEMO_GRAY_LIGHT],
      [op |-> "line_fill_background", ln |-> 415, h |-> 19],
      [op |-> "add_text_box", ln |-> 417, left |-> 868680, top |-> 4553712, width |-> 274320, height |-> 274320, text |-> "4", size |-> 177800, rgb |-> AVEMO_GRAY_MID, bold |-> TRUE, font |-> "Arial", align |-> "CENTER"],
      [op |-> "add_shape", ln |-> 421, prst |-> "ROUNDED_RECTANGLE", left |-> 1371600, top |-> 4389120, width |-> 10058400, height |-> 822960],
      [op |-> "fill_solid", ln |-> 422, h |-> 21],
      [op |-> "fill_rgb", ln |-> 423, h |-> 21, rgb |-> AVEMO_WHITE],
      [op |-> "line_rgb", ln |-> 424, h |-> 21, rgb |-> <<232, 232, 232>>],
      [op |-> "line_width", ln |-> 425, h |-> 21, v |-> 12700],
      [op |-> "alpha", ln |-> 426, h |-> 21, val |-> 90000],
      [op |-> "add_text_box", ln |-> 434, left |-> 1554480, top |-> 4526280, width |-> 2743200, height |-> 365760, text |-> "Hohe Leerlaufzeiten", size |-> 228600, rgb |-> AVEMO_BLACK, bold |-> TRUE, font |-> "Arial", align |-> "LEFT"],
      [op |-> "add_text_box", ln |-> 436, left |-> 1554480, top |-> 4846320, width |-> 9144000, height |-> 365760, text |-> "Durchschnittlich 2,5 Stunden pro Fahrzeug taeglich", size |-> 165100, rgb |-> AVEMO_GRAY_MID, bold |-> FALSE, font |-> "Arial", align |-> "LEFT"],
      [op |-> "add_shape", ln |-> 412, prst |-> "OVAL", left |-> 731520, top |-> 5486400, width |-> 457200, height |-> 457200],
      [op |-> "fill_solid", ln |-> 413, h |-> 24],
      [op |-> "fill_rgb", ln |-> 414, h |-> 24, rgb |-> AVEMO_GRAY_LIGHT],
      [op |-> "line_fill_background", ln |-> 415, h |-> 24],
      [op |-> "add_text_box", ln |-> 417, left |-> 868680, top |-> 5559552, width |-> 274320, height |-> 274320, text |-> "5", size |-> 177800, rgb |-> AVEMO_GRAY_MID, bold |-> TRUE, font |-> "Arial", align |-> "CENTER"],
      [op |-> "add_shape", ln |-> 421, prst |-> "ROUNDED_RECTANGLE", left |-> 1371600, top |-> 5394960, width |-> 10058400, height |-> 822960],
      [op |-> "fill_solid", ln |-> 422, h |-> 26],
      [op |-> "fill_rgb", ln |-> 423, h |-> 26, rgb |-> AVEMO_WHITE],
      [op |-> "line_rgb", ln |-> 424, h |-> 26, rgb |-> <<232, 232, 232>>],
      [op |-> "line_width", ln |-> 425, h |-> 26, v |-> 12700],
      [op |-> "alpha", ln |-> 426, h |-> 26, val |-> 90000],
      [op |-> "add_text_box", ln |-> 434, left |-> 1554480, top |-> 5532120, width |-> 2743200, height |-> 365760, text |-> "Lange Wartezeiten", size |-> 228600, rgb |-> AVEMO_BLACK, bold |-> TRUE, font |-> "Arial", align |-> "LEFT"],
      [op |-> "add_text_box", ln |-> 436, left |-> 1554480, top |-> 5852160, width |-> 9144000, height |-> 365760, text |-> "30 Tage durchschnittlich auf Fahrzeuge warten", size |-> 165100, rgb |-> AVEMO_GRAY_MID, bold |-> FALSE, font |-> "Arial", align |-> "LEFT"],
      \* slide 3 (source lines 440-482)
      [op |-> "add_slide", ln |-> 440],
      [op |-> "add_shape", ln |-> 441, prst |-> "RECTANGLE", left |-> 0, top |-> 0, width |-> SLIDE_WIDTH, height |-> SLIDE_HEIGHT],
      [op |-> "fill_solid", ln |-> 442, h |-> 1],
      [op |-> "fill_rgb", ln |-> 443, h |-> 1, rgb |-> AVEMO_WHITE],
      [op |-> "line_fill_background", ln |-> 444, h |-> 1],
      [op |-> "add_shape", ln |-> 447, prst |-> "RECTANGLE", left |-> 7315200, top |-> 0, width |-> 5486400, height |-> SLIDE_HEIGHT],
      [op |-> "fill_solid", ln |-> 448, h |-> 2],
      [op |-> "fill_rgb", ln |-> 449, h |-> 2, rgb |-> AVEMO_ORANGE],
      [op |-> "line_fill_background", ln |-> 450, h |-> 2],
      [op |-> "add_text_box", ln |-> 452, left |-> 731520, top |-> 731520, width |-> 5486400, height |-> 457200, text |-> "Unsere Loesung", size |-> 177800, rgb |-> AVEMO_ORANGE, bold |-> TRUE, font |-> "Arial", align |-> "LEFT"],
      [op |-> "add_text_box", ln |-> 455, left |-> 731520, top |-> 1371600, width |-> 5486400, height |-> 914400, text |-> "Eine Software fuer alle Standorte", size |-> 457200, rgb |-> AVEMO_BLACK, bold |-> TRUE, font |-> "Arial", align |-> "LEFT"],
      [op |-> "add_shape", ln |-> 469, prst |-> "OVAL", left |-> 731520, top |-> 2743200, width |-> 548640, height |-> 548640],
      [op |-> "fill_solid", ln |-> 470, h |-> 5],
      [op |-> "fill_rgb", ln |-> 471, h |-> 5, rgb |-> AVEMO_ORANGE],
      [op |-> "line_fill_background", ln |-> 472, h |-> 5],
      [op |-> "add_text_box", ln |-> 474, left |-> 1463040, top |-> 2834640, width |-> 2286000, height |-> 365760, text |-> "Synergien", size |-> 279400, rgb |-> AVEMO_BLACK, bold |-> TRUE, font |-> "Arial", align |-> "LEFT"],
      [op |-> "add_text_box", ln |-> 476, left |-> 1463040, top |-> 3200400, width |-> 4572000, height |-> 365760, text |-> "Alle Standorte vernetzt", size |-> 177800, rgb |-> AVEMO_GRAY_MID, bold |-> FALSE, font |-> "Arial", align |-> "LEFT"],
      [op |-> "add_shape", ln |-> 469, prst |-> "OVAL", left |-> 731520, top |-> 3749039, width |-> 548640, height |-> 548640],
      [op |-> "fill_solid", ln |-> 470, h |-> 8],
      [op |-> "fill_rgb", ln |-> 471, h |-> 8, rgb |-> AVEMO_ORANGE],
      [op |-> "line_fill_background", ln |-> 472, h |-> 8],
      [op |-> "add_text_box", ln |-> 474, left |-> 1463040, top |-> 3840479, width |-> 2286000, height |-> 365760, text |-> "Effizienz", size |-> 279400, rgb |-> AVEMO_BLACK, bold |-> TRUE, font |-> "Arial", align |-> "LEFT"],
      [op |-> "add_text_box", ln |-> 476, left |-> 1463040, top |-> 4206239, width |-> 4572000, height |-> 365760, text |-> "Optimierte Prozesse", size |-> 177800, rgb |-> AVEMO_GRAY_MID, bold |-> FALSE, font |-> "Arial", align |-> "LEFT"],
      [op |-> "add_shape", ln |-> 469, prst |-> "OVAL", left |-> 731520, top |-> 4754880, width |-> 548640, height |-> 548640],
      [op |-> "fill_solid", ln |-> 470, h |-> 11],
      [op |-> "fill_rgb", ln |-> 471, h |-> 11, rgb |-> AVEMO_ORANGE],
      [op |-> "line_fill_background", ln |-> 472, h |-> 11],
      [op |-> "add_text_box", ln |-> 474, left |-> 1463040, top |-> 4846320, width |-> 2286000, height |-> 365760, text |-> "Automatisierung", size |-> 279400, rgb |-> AVEMO_BLACK, bold |-> TRUE, font |-> "Arial", align |-> "LEFT"],
      [op |-> "add_text_box", ln |-> 476, left |-> 1463040, top |-> 5212080, width |-> 4572000, height |-> 365760, text |-> "Weniger manuelle Arbeit", size |-> 177800, rgb |-> AVEMO_GRAY_MID, bold |-> FALSE, font |-> "Arial", align |-> "LEFT"],
      [op |-> "add_shape", ln |-> 469, prst |-> "OVAL", left |-> 731520, top |-> 5760720, width |-> 548640, height |-> 548640],
      [op |-> "fill_solid", ln |-> 470, h |-> 14],
      [op |-> "fill_rgb", ln |-> 471, h |-> 14, rgb |-> AVEMO_ORANGE],
      [op |-> "line_fill_background", ln |-> 472, h |-> 14],
      [op |-> "add_text_box", ln |-> 474, left |-> 1463040, top |-> 5852160, width |-> 2286000, height |-> 365760, text |-> "Einsparung", size |-> 279400, rgb |-> AVEMO_BLACK, bold |-> TRUE, font |-> "Arial", align |-> "LEFT"],
      [op |-> "add_text_box", ln |-> 476, left |-> 1463040, top |-> 6217920, width |-> 4572000, height |-> 365760, text |-> "260.000 EUR jaehrlich", size |-> 177800, rgb |-> AVEMO_GRAY_MID, bold |-> FALSE, font |-> "Arial", align |-> "LEFT"],
      [op |-> "add_text_box", ln |-> 480, left |-> 7772400, top |-> 2743200, width |-> 3657600, height |-> 2743200, text |-> "Transformieren Sie Ihre Fahrzeugdisposition mit moderner Technologie", size |-> 304800, rgb |-> AVEMO_WHITE, bold |-> TRUE, font |-> "Arial", align |-> "LEFT"],
      \* slide 4 (source lines 485-530)
      [op |-> "add_slide", ln |-> 485],
      [op |-> "add_shape", ln |-> 486, prst |-> "RECTANGLE", left |-> 0, top |-> 0, width |-> SLIDE_WIDTH, height |-> SLIDE_HEIGHT],
      [op |-> "fill_solid", ln |-> 487, h |-> 1],
      [op |-> "fill_rgb", ln |-> 488, h |-> 1, rgb |-> AVEMO_WHITE],
      [op |-> "line_fill_background", ln |-> 489, h |-> 1],
      [op |-> "add_text_box", ln |-> 491, left |-> 731520, top |-> 548640, width |-> 5486400, height |-> 365760, text |-> "Minimum Viable Product", size |-> 177800, rgb |-> AVEMO_ORANGE, bold |-> TRUE, font |-> "Arial", align |-> "LEFT"],
      [op |-> "add_text_box", ln |-> 494, left |-> 731520, top |-> 1097280, width |-> 9144000, height |-> 731520, text |-> "Die Kernfunktionen", size |-> 508000, rgb |-> AVEMO_BLACK, bold |-> TRUE, font |-> "Arial", align |-> "LEFT"],
      [op |-> "add_shape", ln |-> 513, prst |-> "ROUNDED_RECTANGLE", left |-> 731520, top |-> 2286000, width |-> 3474720, height |-> 1737360],
      [op |-> "fill_solid", ln |-> 514, h |-> 4],
      [op |-> "fill_rgb", ln |-> 515, h |-> 4, rgb |-> AVEMO_WHITE],
      [op |-> "line_rgb", ln |-> 516, h |-> 4, rgb |-> <<221, 221, 221>>],
      [op |-> "line_width", ln |-> 517, h |-> 4, v |-> 12700],
      [op |-> "add_shape", ln |-> 520, prst |-> "RECTANGLE", left |-> 731520, top |-> 2286000, width |-> 3474720, height |-> 73152],
      [op |-> "fill_solid", ln |-> 521, h |-> 5],
      [op |-> "fill_rgb", ln |-> 522, h |-> 5, rgb |-> AVEMO_ORANGE],
      [op |-> "line_fill_background", ln |-> 523, h |-> 5],
      [op |-> "add_text_box", ln |-> 525, left |-> 1005840, top |-> 2743200, width |-> 2926080, height |-> 914400, text |-> "Planungsalgorithmus", size |-> 254000, rgb |-> AVEMO_BLACK, bold |-> TRUE, font |-> "Arial", align |-> "LEFT"],
      [op |-> "add_text_box", ln |-> 529, left |-> 1005840, top |-> 2514600, width |-> 457200, height |-> 274320, text |-> "01", size |-> 152400, rgb |-> AVEMO_ORANGE, bold |-> TRUE, font |-> "Arial", align |-> "LEFT"],
      [op |-> "add_shape", ln |-> 513, prst |-> "ROUNDED_RECTANGLE", left |-> 4480559, top |-> 2286000, width |-> 3474720, height |-> 1737360],
      [op |-> "fill_solid", ln |-> 514, h |-> 8],
      [op |-> "fill_rgb", ln |-> 515, h |-> 8, rgb |-> AVEMO_WHITE],
      [op |-> "line_rgb", ln |-> 516, h |-> 8, rgb |-> <<221, 221, 221>>],
      [op |-> "line_width", ln |-> 517, h |-> 8, v |-> 12700],
      [op |-> "add_shape", ln |-> 520, prst |-> "RECTANGLE", left |-> 4480559, top |-> 2286000, width |-> 3474720, height |-> 73152],
      [op |-> "fill_solid", ln |-> 521, h |-> 9],
      [op |-> "fill_rgb", ln |-> 522, h |-> 9, rgb |-> AVEMO_ORANGE],
      [op |-> "line_fill_background", ln |-> 523, h |-> 9],
      [op |-> "add_text_box", ln |-> 525, left |-> 4754879, top |-> 2743200, width |-> 2926080, height |-> 914400, text |-> "Driver App", size |-> 254000, rgb |-> AVEMO_BLACK, bold |-> TRUE, font |-> "Arial", align |-> "LEFT"],
      [op |-> "add_text_box", ln |-> 529, left |-> 4754879, top |-> 2514600, width |-> 457200, height |-> 274320, text |-> "02", size |-> 152400, rgb |-> AVEMO_ORANGE, bold |-> TRUE, font |-> "Arial", align |-> "LEFT"],
      [op |-> "add_shape", ln |-> 513, prst |-> "ROUNDED_RECTANGLE", left |-> 8229600, top |-> 2286000, width |-> 3474720, height |-> 1737360],
      [op |-> "fill_solid", ln |-> 514, h |-> 12],
      [op |-> "fill_rgb", ln |-> 515, h |-> 12, rgb |-> AVEMO_WHITE],
      [op |-> "line_rgb", ln |-> 516, h |-> 12, rgb |-> <<221, 221, 221>>],
      [op |-> "line_width", ln |-> 517, h |-> 12, v |-> 12700],
      [op |-> "add_shape", ln |-> 520, prst |-> "RECTANGLE", left |-> 8229600, top |-> 2286000, width |-> 3474720, height |-> 73152],
      [op |-> "fill_solid", ln |-> 521, h |-> 13],
      [op |-> "fill_rgb", ln |-> 522, h |-> 13, rgb |-> AVEMO_ORANGE],
      [op |-> "line_fill_background", ln |-> 523, h |-> 13],
      [op |-> "add_text_box", ln |-> 525, left |-> 8503920, top |-> 2743200, width |-> 2926080, height |-> 914400, text |-> "Web-Backoffice", size |-> 254000, rgb |-> AVEMO_BLACK, bold |-> TRUE, font |-> "Arial", align |-> "LEFT"],
      [op |-> "add_text_box", ln |-> 529, left |-> 8503920, top |-> 2514600, width |-> 457200, height |-> 274320, text |-> "03", size |-> 152400, rgb |-> AVEMO_ORANGE, bold |-> TRUE, font |-> "Arial", align |-> "LEFT"],
      [op |-> "add_shape", ln |-> 513, prst |-> "ROUNDED_RECTANGLE", left |-> 731520, top |-> 4297680, width |-> 3474720, height |-> 1737360],
      [op |-> "fill_solid", ln |-> 514, h |-> 16],
      [op |-> "fill_rgb", ln |-> 515, h |-> 16, rgb |-> AVEMO_WHITE],
      [op |-> "line_rgb", ln |-> 516, h |-> 16, rgb |-> <<221, 221, 221>>],
      [op |-> "line_width", ln |-> 517, h |-> 16, v |-> 12700],
      [op |-> "add_shape", ln |-> 520, prst |-> "RECTANGLE", left |-> 731520, top |-> 4297680, width |-> 3474720, height |-> 73152],
      [op |-> "fill_solid", ln |-> 521, h |-> 17],
      [op |-> "fill_rgb", ln |-> 522, h |-> 17, rgb |-> AVEMO_ORANGE],
      [op |-> "line_fill_background", ln |-> 523, h |-> 17],
      [op |-> "add_text_box", ln |-> 525, left |-> 1005840, top |-> 4754880, width |-> 2926080, height |-> 914400, text |-> "Externe Dienstleister", size |-> 254000, rgb |-> AVEMO_BLACK, bold |-> TRUE, font |-> "Arial", align |-> "LEFT"],
      [op |-> "add_text_box", ln |-> 529, left |-> 1005840, top |-> 4526280, width |-> 457200, height |-> 274320, text |-> "04", size |-> 152400, rgb |-> AVEMO_ORANGE, bold |-> TRUE, font |-> "Arial", align |-> "LEFT"],
      [op |-> "add_shape", ln |-> 513, prst |-> "ROUNDED_RECTANGLE", left |-> 4480559, top |-> 4297680, width |-> 3474720, height |-> 1737360],
      [op |-> "fill_solid", ln |-> 514, h |-> 20],
      [op |-> "fill_rgb", ln |-> 515, h |-> 20, rgb |-> AVEMO_WHITE],
      [op |-> "line_rgb", ln |-> 516, h |-> 20, rgb |-> <<221, 221, 221>>],
      [op |-> "line_width", ln |-> 517, h |-> 20, v |-> 12700],
      [op |-> "add_shape", ln |-> 520, prst |-> "RECTANGLE", left |-> 4480559, top |-> 4297680, width |-> 3474720, height |-> 73152],
      [op |-> "fill_solid", ln |-> 521, h |-> 21],
      [op |-> "fill_rgb", ln |-> 522, h |-> 21, rgb |-> AVEMO_ORANGE],
      [op |-> "line_fill_background", ln |-> 523, h |-> 21],
      [op |-> "add_text_box", ln |-> 525, left |-> 4754879, top |-> 4754880, width |-> 2926080, height |-> 914400, text |-> "Monitoring", size |-> 254000, rgb |-> AVEMO_BLACK, bold |-> TRUE, font |-> "Arial", align |-> "LEFT"],
      [op |-> "add_text_box", ln |-> 529, left |-> 4754879, top |-> 4526280, width |-> 457200, height |-> 274320, text |-> "05", size |-> 152400, rgb |-> AVEMO_ORANGE, bold |-> TRUE, font |-> "Arial", align |-> "LEFT"],
      [op |-> "add_shape", ln |-> 513, prst |-> "ROUNDED_RECTANGLE", left |-> 8229600, top |-> 4297680, width |-> 3474720, height |-> 1737360],
      [op |-> "fill_solid", ln |-> 514, h |-> 24],
      [op |-> "fill_rgb", ln |-> 515, h |-> 24, rgb |-> AVEMO_WHITE],
      [op |-> "line_rgb", ln |-> 516, h |-> 24, rgb |-> <<221, 221, 221>>],
      [op |-> "line_width", ln |-> 517, h |-> 24, v |-> 12700],
      [op |-> "add_shape", ln |-> 520, prst |-> "RECTANGLE", left |-> 8229600, top |-> 4297680, width |-> 3474720, height |-> 73152],
      [op |-> "fill_solid", ln |-> 521, h |-> 25],
      [op |-> "fill_rgb", ln |-> 522, h |-> 25, rgb |-> AVEMO_ORANGE],
      [op |-> "line_fill_background", ln |-> 523, h |-> 25],
      [op |-> "add_text_box", ln |-> 525, left |-> 8503920, top |-> 4754880, width |-> 2926080, height |-> 914400, text |-> "Reporting", size |-> 254000, rgb |-> AVEMO_BLACK, bold |-> TRUE, font |-> "Arial", align |-> "LEFT"],
      [op |-> "add_text_box", ln |-> 529, left |-> 8503920, top |-> 4526280, width |-> 457200, height |-> 274320, text |-> "06", size |-> 152400, rgb |-> AVEMO_ORANGE, bold |-> TRUE, font |-> "Arial", align |-> "LEFT"],
      \* slide 5 (source lines 533-566)
      [op |-> "add_slide", ln |-> 533],
      [op |-> "add_shape", ln |-> 534, prst |-> "RECTANGLE", left |-> 0, top |-> 0, width |-> SLIDE_WIDTH, height |-> SLIDE_HEIGHT],
      [op |-> "fill_solid", ln |-> 535, h |-> 1],
      [op |-> "fill_rgb", ln |-> 536, h |-> 1, rgb |-> AVEMO_WHITE],
      [op |-> "line_fill_background", ln |-> 537, h |-> 1],
      [op |-> "add_shape", ln |-> 541, prst |-> "OVAL", left |-> 1828800, top |-> 914400, width |-> 274320, height |-> 274320],
      [op |-> "fill_solid", ln |-> 542, h |-> 2],
      [op |-> "fill_rgb", ln |-> 543, h |-> 2, rgb |-> AVEMO_ORANGE],
      [op |-> "line_fill_background", ln |-> 544, h |-> 2],
      [op |-> "alpha", ln |-> 545, h |-> 2, val |-> 30000],
      [op |-> "add_shape", ln |-> 541, prst |-> "OVAL", left |-> 9144000, top |-> 4572000, width |-> 274320, height |-> 274320],
      [op |-> "fill_solid", ln |-> 542, h |-> 3],
      [op |-> "fill_rgb", ln |-> 543, h |-> 3, rgb |-> AVEMO_ORANGE],
      [op |-> "line_fill_background", ln |-> 544, h |-> 3],
      [op |-> "alpha", ln |-> 545, h |-> 3, val |-> 30000],
      [op |-> "add_shape", ln |-> 541, prst |-> "OVAL", left |-> 10058400, top |-> 457200, width |-> 274320, height |-> 274320],
      [op |-> "fill_solid", ln |-> 542, h |-> 4],
      [op |-> "fill_rgb", ln |-> 543, h |-> 4, rgb |-> AVEMO_ORANGE],
      [op |-> "line_fill_background", ln |-> 544, h |-> 4],
      [op |-> "alpha", ln |-> 545, h |-> 4, val |-> 30000],
      [op |-> "add_shape", ln |-> 541, prst |-> "OVAL", left |-> 914400, top |-> 5486400, width |-> 274320, height |-> 274320],
      [op |-> "fill_solid", ln |-> 542, h |-> 5],
      [op |-> "fill_rgb", ln |-> 543, h |-> 5, rgb |-> AVEMO_ORANGE],
      [op |-> "line_fill_background", ln |-> 544, h |-> 5],
      [op |-> "alpha", ln |-> 545, h |-> 5, val |-> 30000],
      [op |-> "add_text_box", ln |-> 553, left |-> 731520, top |-> 2560320, width |-> 9144000, height |-> 914400, text |-> "Bereit fuer die", size |-> 457200, rgb |-> AVEMO_GRAY_MID, bold |-> FALSE, font |-> "Arial", align |-> "LEFT"],
      [op |-> "add_text_box", ln |-> 555, left |-> 731520, top |-> 3200400, width |-> 9144000, height |-> 1097280, text |-> "Zukunft?", size |-> 914400, rgb |-> AVEMO_BLACK, bold |-> TRUE, font |-> "Arial", align |-> "LEFT"],
      [op |-> "add_shape", ln |-> 559, prst |-> "RECTANGLE", left |-> 731520, top |-> 4297680, width |-> 2743200, height |-> 73152],
      [op |-> "fill_solid", ln |-> 560, h |-> 8],
      [op |-> "fill_rgb", ln |-> 561, h |-> 8, rgb |-> AVEMO_ORANGE],
      [op |-> "line_fill_background", ln |-> 562, h |-> 8],
      [op |-> "add_text_box", ln |-> 564, left |-> 731520, top |-> 4754880, width |-> 7315200, height |-> 731520, text |-> "Gemeinsam gestalten wir die digitale Transformation.", size |-> 228600, rgb |-> AVEMO_GRAY_MID, bold |-> FALSE, font |-> "Arial", align |-> "LEFT"],
      \* save and acknowledgement (source lines 568-569)
      [op |-> "save", ln |-> 568, path |-> "/root/fahrerplanung/presentations/design-2-minimal-glass.pptx"],
      [op |-> "print", ln |-> 569, msg |-> "Created: design-2-minimal-glass.pptx"]>>

\* create_presentation_3 (source lines 580-748)
Deck3 ==
    <<
      \* the new presentation and its canvas (source lines 580-582)
      [op |-> "Presentation", ln |-> 580],
      [op |-> "slide_width", ln |-> 581, v |-> SLIDE_WIDTH],
      [op |-> "slide_height", ln |-> 582, v |-> SLIDE_HEIGHT],
      \* slide 1 (source lines 585-606)
      [op |-> "add_slide", ln |-> 585],
      [op |-> "add_shape", ln |-> 586, prst |-> "RECTANGLE", left |-> 0, top |-> 0, width |-> SLIDE_WIDTH, height |-> SLIDE_HEIGHT],
      [op |-> "fill_solid", ln |-> 587, h |-> 1],
      [op |-> "fill_rgb", ln |-> 588, h |-> 1, rgb |-> AVEMO_BLACK],
      [op |-> "line_fill_background", ln |-> 589, h |-> 1],
      [op |-> "add_text_box", ln |-> 592, left |-> -182880, top |-> 1371600, width |-> 12801600, height |-> 1828800, text |-> "FAHRER", size |-> 1778000, rgb |-> AVEMO_WHITE, bold |-> TRUE, font |-> "Arial", align |-> "LEFT"],
      [op |-> "add_shape", ln |-> 596, prst |-> "RECTANGLE", left |-> 5029200, top |-> 3017520, width |-> 7315200, height |-> 1645920],
      [op |-> "fill_solid", ln |-> 597, h |-> 3],
      [op |-> "fill_rgb", ln |-> 598, h |-> 3, rgb |-> AVEMO_ORANGE],
      [op |-> "line_fill_background", ln |-> 599, h |-> 3],
      [op |-> "add_text_box", ln |-> 601, left |-> 5212080, top |-> 3108960, width |-> 6400800, height |-> 1463040, text |-> "SOFTWARE", size |-> 1270000, rgb |-> AVEMO_BLACK, bold |-> TRUE, font |-> "Arial", align |-> "LEFT"],
      [op |-> "add_text_box", ln |-> 605, left |-> 731520, top |-> 5303520, width |-> 7315200, height |-> 548640, text |-> "Die Zukunft der Fahrzeugdisposition", size |-> 304800, rgb |-> AVEMO_WHITE, bold |-> FALSE, font |-> "Arial", align |-> "LEFT"],
      \* slide 2 (source lines 609-651)
      [op |-> "add_slide", ln |-> 609],
      [op |-> "add_shape", ln |-> 612, prst |-> "RECTANGLE", left |-> 0, top |-> 0, width |-> 3657600, height |-> SLIDE_HEIGHT],
      [op |-> "fill_solid", ln |-> 613, h |-> 1],
      [op |-> "fill_rgb", ln |-> 614, h |-> 1, rgb |-> AVEMO_ORANGE],
      [op |-> "line_fill_background", ln |-> 615, h |-> 1],
      [op |-> "add_shape", ln |-> 617, prst |-> "RECTANGLE", left |-> 3657600, top |-> 0, width |-> 8534095, height |-> SLIDE_HEIGHT],
      [op |-> "fill_solid", ln |-> 618, h |-> 2],
      [op |-> "fill_rgb", ln |-> 619, h |-> 2, rgb |-> AVEMO_WHITE],
      [op |-> "line_fill_background", ln |-> 620, h |-> 2],
      [op |-> "add_text_box", ln |-> 623, left |-> 457200, top |-> 2286000, width |-> 2743200, height |-> 1828800, text |-> "01", size |-> 1524000, rgb |-> AVEMO_BLACK, bold |-> TRUE, font |-> "Arial", align |-> "LEFT"],
      [op |-> "add_text_box", ln |-> 626, left |-> 731520, top |-> 4572000, width |-> 2743200, height |-> 914400, text |-> "PROBLEM", size |-> 228600, rgb |-> AVEMO_BLACK, bold |-> TRUE, font |-> "Arial", align |-> "LEFT"],
      [op |-> "add_text_box", ln |-> 630, left |-> 4114800, top |-> 731520, width |-> 7315200, height |-> 548640, text |-> "Aktuelle Herausforderungen", size |-> 406400, rgb |-> AVEMO_BLACK, bold |-> TRUE, font |-> "Arial", align |-> "LEFT"],
      [op |-> "add_shape", ln |-> 645, prst |-> "RECTANGLE", left |-> 4114800, top |-> 1783080, width |-> 365760, height |-> 36576],
      [op |-> "fill_solid", ln |-> 646, h |-> 6],
      [op |-> "fill_rgb", ln |-> 647, h |-> 6, rgb |-> AVEMO_BLACK],
      [op |-> "line_fill_background", ln |-> 648, h |-> 6],
      [op |-> "add_text_box", ln |-> 650, left |-> 4663440, top |-> 1645920, width |-> 6400800, height |-> 457200, text |-> "Isolierte Standorte", size |-> 279400, rgb |-> AVEMO_BLACK, bold |-> TRUE, font |-> "Arial", align |-> "LEFT"],
      [op |-> "add_shape", ln |-> 645, prst |-> "RECTANGLE", left |-> 4114800, top |-> 2697480, width |-> 365760, height |-> 36576],
      [op |-> "fill_solid", ln |-> 646, h |-> 8],
      [op |-> "fill_rgb", ln |-> 647, h |-> 8, rgb |-> AVEMO_BLACK],
      [op |-> "line_fill_background", ln |-> 648, h |-> 8],
      [op |-> "add_text_box", ln |-> 650, left |-> 4663440, top |-> 2560320, width |-> 6400800, height |-> 457200, text |-> "Manuelle Prozesse", size |-> 279400, rgb |-> AVEMO_BLACK, bold |-> TRUE, font |-> "Arial", align |-> "LEFT"],
      [op |-> "add_shape", ln |-> 645, prst |-> "RECTANGLE", left |-> 4114800, top |-> 3611880, width |-> 365760, height |-> 36576],
      [op |-> "fill_solid", ln |-> 646, h |-> 10],
      [op |-> "fill_rgb", ln |-> 647, h |-> 10, rgb |-> AVEMO_BLACK],
      [op |-> "line_fill_background", ln |-> 648, h |-> 10],
      [op |-> "add_text_box", ln |-> 650, left |-> 4663440, top |-> 3474720, width |-> 6400800, height |-> 457200, text |-> "Fehlende KPIs", size |-> 279400, rgb |-> AVEMO_BLACK, bold |-> TRUE, font |-> "Arial", align |-> "LEFT"],
      [op |-> "add_shape", ln |-> 645, prst |-> "RECTANGLE", left |-> 4114800, top |-> 4526280, width |-> 365760, height |-> 36576],
      [op |-> "fill_solid", ln |-> 646, h |-> 12],
      [op |-> "fill_rgb", ln |-> 647, h |-> 12, rgb |-> AVEMO_BLACK],
      [op |-> "line_fill_background", ln |-> 648, h |-> 12],
      [op |-> "add_text_box", ln |-> 650, left |-> 4663440, top |-> 4389120, width |-> 6400800, height |-> 457200, text |-> "2,5h Leerlauf", size |-> 279400, rgb |-> AVEMO_BLACK, bold |-> TRUE, font |-> "Arial", align |-> "LEFT"],
      [op |-> "add_shape", ln |-> 645, prst |-> "RECTANGLE", left |-> 4114800, top |-> 5440680, width |-> 365760, height |-> 36576],
      [op |-> "fill_solid", ln |-> 646, h |-> 14],
      [op |-> "fill_rgb", ln |-> 647, h |-> 14, rgb |-> AVEMO_BLACK],
      [op |-> "line_fill_background", ln |-> 648, h |-> 14],
      [op |-> "add_text_box", ln |-> 650, left |-> 4663440, top |-> 5303520, width |-> 6400800, height |-> 457200, text |-> "30 Tage Wartezeit", size |-> 279400, rgb |-> AVEMO_BLACK, bold |-> TRUE, font |-> "Arial", align |-> "LEFT"],
      \* slide 3 (source lines 654-684)
      [op |-> "add_slide", ln |-> 654],
      [op |-> "add_shape", ln |-> 655, prst |-> "RECTANGLE", left |-> 0, top |-> 0, width |-> SLIDE_WIDTH, height |-> SLIDE_HEIGHT],
      [op |-> "fill_solid", ln |-> 656, h |-> 1],
      [op |-> "fill_rgb", ln |-> 657, h |-> 1, rgb |-> AVEMO_BLACK],
      [op |-> "line_fill_background", ln |-> 658, h |-> 1],
      [op |-> "add_shape", ln |-> 661, prst |-> "RECTANGLE", left |-> 1828800, top |-> 1371600, width |-> 8229600, height |-> 4114800],
      [op |-> "fill_solid", ln |-> 662, h |-> 2],
      [op |-> "fill_rgb", ln |-> 663, h |-> 2, rgb |-> AVEMO_WHITE],
      [op |-> "line_fill_background", ln |-> 664, h |-> 2],
      [op |-> "add_text_box", ln |-> 666, left |-> 2286000, top |-> 1645920, width |-> 7315200, height |-> 457200, text |-> "DIE LOeSUNG", size |-> 177800, rgb |-> AVEMO_ORANGE, bold |-> TRUE, font |-> "Arial", align |-> "LEFT"],
      [op |-> "add_text_box", ln |-> 669, left |-> 2286000, top |-> 2194560, width |-> 7315200, height |-> 914400, text |-> "Eine Software fuer alle Standorte", size |-> 457200, rgb |-> AVEMO_BLACK, bold |-> TRUE, font |-> "Arial", align |-> "LEFT"],
      [op |-> "add_text_box", ln |-> 681, left |-> 2286000, top |-> 3291840, width |-> 2743200, height |-> 365760, text |-> "Synergien", size |-> 203200, rgb |-> AVEMO_ORANGE, bold |-> TRUE, font |-> "Arial", align |-> "LEFT"],
      [op |-> "add_text_box", ln |-> 683, left |-> 4572000, top |-> 3291840, width |-> 4572000, height |-> 365760, text |-> "Vernetzung aller Standorte", size |-> 177800, rgb |-> AVEMO_GRAY_MID, bold |-> FALSE, font |-> "Arial", align |-> "LEFT"],
      [op |-> "add_text_box", ln |-> 681, left |-> 2286000, top |-> 3840480, width |-> 2743200, height |-> 365760, text |-> "Effizienz", size |-> 203200, rgb |-> AVEMO_ORANGE, bold |-> TRUE, font |-> "Arial", align |-> "LEFT"],
      [op |-> "add_text_box", ln |-> 683, left |-> 4572000, top |-> 3840480, width |-> 4572000, height |-> 365760, text |-> "Optimierte Fahrzeugnutzung", size |-> 177800, rgb |-> AVEMO_GRAY_MID, bold |-> FALSE, font |-> "Arial", align |-> "LEFT"],
      [op |-> "add_text_box", ln |-> 681, left |-> 2286000, top |-> 4389120, width |-> 2743200, height |-> 365760, text |-> "Automatisierung", size |-> 203200, rgb |-> AVEMO_ORANGE, bold |-> TRUE, font |-> "Arial", align |-> "LEFT"],
      [op |-> "add_text_box", ln |-> 683, left |-> 4572000, top |-> 4389120, width |-> 4572000, height |-> 365760, text |-> "Reduzierung manueller Arbeit", size |-> 177800, rgb |-> AVEMO_GRAY_MID, bold |-> FALSE, font |-> "Arial", align |-> "LEFT"],
      [op |-> "add_text_box", ln |-> 681, left |-> 2286000, top |-> 4937760, width |-> 2743200, height |-> 365760, text |-> "Kosten", size |-> 203200, rgb |-> AVEMO_ORANGE, bold |-> TRUE, font |-> "Arial", align |-> "LEFT"],
      [op |-> "add_text_box", ln |-> 683, left |-> 4572000, top |-> 4937760, width |-> 4572000, height |-> 365760, text |-> "260.000 EUR Einsparung", size |-> 177800, rgb |-> AVEMO_GRAY_MID, bold |-> FALSE, font |-> "Arial", align |-> "LEFT"],
      \* slide 4 (source lines 687-722)
      [op |-> "add_slide", ln |-> 687],
      [op |-> "add_shape", ln |-> 688, prst |-> "RECTANGLE", left |-> 0, top |-> 0, width |-> SLIDE_WIDTH, height |-> SLIDE_HEIGHT],
      [op |-> "fill_solid", ln |-> 689, h |-> 1],
      [op |-> "fill_rgb", ln |-> 690, h |-> 1, rgb |-> AVEMO_WHITE],
      [op |-> "line_fill_background", ln |-> 691, h |-> 1],
      [op |-> "add_text_box", ln |-> 694, left |-> -914400, top |-> 5029200, width |-> 18288000, height |-> 1828800, text |-> "MVP", size |-> 2540000, rgb |-> <<240, 240, 240>>, bold |-> TRUE, font |-> "Arial", align |-> "LEFT"],
      [op |-> "add_text_box", ln |-> 697, left |-> 731520, top |-> 548640, width |-> 5486400, height |-> 457200, text |-> "MINIMUM VIABLE PRODUCT", size |-> 177800, rgb |-> AVEMO_ORANGE, bold |-> TRUE, font |-> "Arial", align |-> "LEFT"],
      [op |-> "add_text_box", ln |-> 716, left |-> 731520, top |-> 1371600, width |-> 914400, height |-> 731520, text |-> "01", size |-> 609600, rgb |-> AVEMO_ORANGE, bold |-> TRUE, font |-> "Arial", align |-> "LEFT"],
      [op |-> "add_text_box", ln |-> 719, left |-> 731520, top |-> 2103120, width |-> 3474720, height |-> 548640, text |-> "Planungs- algorithmus", size |-> 254000, rgb |-> AVEMO_BLACK, bold |-> TRUE, font |-> "Arial", align |-> "LEFT"],
      [op |-> "add_text_box", ln |-> 721, left |-> 731520, top |-> 2560320, width |-> 3474720, height |-> 457200, text |-> "Optimierte Tourenplanung", size |-> 165100, rgb |-> AVEMO_GRAY_MID, bold |-> FALSE, font |-> "Arial", align |-> "LEFT"],
      [op |-> "add_text_box", ln |-> 716, left |-> 4480559, top |-> 1371600, width |-> 914400, height |-> 731520, text |-> "02", size |-> 609600, rgb |-> AVEMO_ORANGE, bold |-> TRUE, font |-> "Arial", align |-> "LEFT"],
      [op |-> "add_text_box", ln |-> 719, left |-> 4480559, top |-> 2103120, width |-> 3474720, height |-> 548640, text |-> "Driver App", size |-> 254000, rgb |-> AVEMO_BLACK, bold |-> TRUE, font |-> "Arial", align |-> "LEFT"],
      [op |-> "add_text_box", ln |-> 721, left |-> 4480559, top |-> 2560320, width |-> 3474720, height |-> 457200, text |-> "Intuitive Bedienung", size |-> 165100, rgb |-> AVEMO_GRAY_MID, bold |-> FALSE, font |-> "Arial", align |-> "LEFT"],
      [op |-> "add_text_box", ln |-> 716, left |-> 8229600, top |-> 1371600, width |-> 914400, height |-> 731520, text |-> "03", size |-> 609600, rgb |-> AVEMO_ORANGE, bold |-> TRUE, font |-> "Arial", align |-> "LEFT"],
      [op |-> "add_text_box", ln |-> 719, left |-> 8229600, top |-> 2103120, width |-> 3474720, height |-> 548640, text |-> "Web- Backoffice", size |-> 254000, rgb |-> AVEMO_BLACK, bold |-> TRUE, font |-> "Arial", align |-> "LEFT"],
      [op |-> "add_text_box", ln |-> 721, left |-> 8229600, top |-> 2560320, width |-> 3474720, height |-> 457200, text |-> "Moderne Oberflaeche", size |-> 165100, rgb |-> AVEMO_GRAY_MID, bold |-> FALSE, font |-> "Arial", align |-> "LEFT"],
      [op |-> "add_text_box", ln |-> 716, left |-> 731520, top |-> 3931920, width |-> 914400, height |-> 731520, text |-> "04", size |-> 609600, rgb |-> AVEMO_ORANGE, bold |-> TRUE, font |-> "Arial", align |-> "LEFT"],
      [op |-> "add_text_box", ln |-> 719, left |-> 731520, top |-> 4663440, width |-> 3474720, height |-> 548640, text |-> "Monitoring", size |-> 254000, rgb |-> AVEMO_BLACK, bold |-> TRUE, font |-> "Arial", align |-> "LEFT"],
      [op |-> "add_text_box", ln |-> 721, left |-> 731520, top |-> 5120640, width |-> 3474720, height |-> 457200, text |-> "Echtzeit-Uebersicht", size |-> 165100, rgb |-> AVEMO_GRAY_MID, bold |-> FALSE, font |-> "Arial", align |-> "LEFT"],
      [op |-> "add_text_box", ln |-> 716, left |-> 4480559, top |-> 3931920, width |-> 914400, height |-> 731520, text |-> "05", size |-> 609600, rgb |-> AVEMO_ORANGE, bold |-> TRUE, font |-> "Arial", align |-> "LEFT"],
      [op |-> "add_text_box", ln |-> 719, left |-> 4480559, top |-> 4663440, width |-> 3474720, height |-> 548640, text |-> "Reporting", size |-> 254000, rgb |-> AVEMO_BLACK, bold |-> TRUE, font |-> "Arial", align |-> "LEFT"],
      [op |-> "add_text_box", ln |-> 721, left |-> 4480559, top |-> 5120640, width |-> 3474720, height |-> 457200, text |-> "Automatisierte Reports", size |-> 165100, rgb |-> AVEMO_GRAY_MID, bold |-> FALSE, font |-> "Arial", align |-> "LEFT"],
      [op |-> "add_text_box", ln |-> 716, left |-> 8229600, top |-> 3931920, width |-> 914400, height |-> 731520, text |-> "06", size |-> 609600, rgb |-> AVEMO_ORANGE, bold |-> TRUE, font |-> "Arial", align |-> "LEFT"],
      [op |-> "add_text_box", ln |-> 719, left |-> 8229600, top |-> 4663440, width |-> 3474720, height |-> 548640, text |-> "Integration", size |-> 254000, rgb |-> AVEMO_BLACK, bold |-> TRUE, font |-> "Arial", align |-> "LEFT"],
      [op |-> "add_text_box", ln |-> 721, left |-> 8229600, top |-> 5120640, width |-> 3474720, height |-> 457200, text |-> "Externe Dienstleister", size |-> 165100, rgb |-> AVEMO_GRAY_MID, bold |-> FALSE, font |-> "Arial", align |-> "LEFT"],
      \* slide 5 (source lines 725-745)
      [op |-> "add_slide", ln |-> 725],
      [op |-> "add_shape", ln |-> 726, prst |-> "RECTANGLE", left |-> 0, top |-> 0, width |-> SLIDE_WIDTH, height |-> SLIDE_HEIGHT],
      [op |-> "fill_solid", ln |-> 727, h |-> 1],
      [op |-> "fill_rgb", ln |-> 728, h |-> 1, rgb |-> AVEMO_BLACK],
      [op |-> "line_fill_background", ln |-> 729, h |-> 1],
      [op |-> "add_shape", ln |-> 732, prst |-> "RECTANGLE", left |-> 5486400, top |-> -1828800, width |-> 3657600, height |-> 10972800],
      [op |-> "fill_solid", ln |-> 733, h |-> 2],
      [op |-> "fill_rgb", ln |-> 734, h |-> 2, rgb |-> AVEMO_ORANGE],
      [op |-> "rotation", ln |-> 735, h |-> 2, v |-> -25],
      [op |-> "line_fill_background", ln |-> 736, h |-> 2],
      [op |-> "add_text_box", ln |-> 738, left |-> 731520, top |-> 2286000, width |-> 7315200, height |-> 914400, text |-> "Bereit fuer", size |-> 457200, rgb |-> AVEMO_WHITE, bold |-> FALSE, font |-> "Arial", align |-> "LEFT"],
      [op |-> "add_text_box", ln |-> 740, left |-> 731520, top |-> 3017520, width |-> 7315200, height |-> 1097280, text |-> "die Zukunft?", size |-> 762000, rgb |-> AVEMO_ORANGE, bold |-> TRUE, font |-> "Arial", align |-> "LEFT"],
      [op |-> "add_text_box", ln |-> 743, left |-> 731520, top |-> 4389120, width |-> 6400800, height |-> 914400, text |-> "Gemeinsam transformieren wir Ihre Fahrzeugdisposition.", size |-> 203200, rgb |-> AVEMO_GRAY_MID, bold |-> FALSE, font |-> "Arial", align |-> "LEFT"],
      \* save and acknowledgement (source lines 747-748)
      [op |-> "save", ln |-> 747, path |-> "/root/fahrerplanung/presentations/design-3-bold-editorial.pptx"],
      [op |-> "print", ln |-> 748, msg |-> "Created: design-3-bold-editorial.pptx"]>>

\* create_presentation_4 (source lines 759-943)
Deck4 ==
    <<
      \* the new presentation and its canvas (source lines 759-761)
      [op |-> "Presentation", ln |-> 759],
      [op |-> "slide_width", ln |-> 760, v |-> SLIDE_WIDTH],
      [op |-> "slide_height", ln |-> 761, v |-> SLIDE_HEIGHT],
      \* slide 1 (source lines 764-795)
      [op |-> "add_slide", ln |-> 764],
      [op |-> "add_shape", ln |-> 767, prst |-> "RECTANGLE", left |-> 0, top |-> 0, width |-> SLIDE_WIDTH, height |-> SLIDE_HEIGHT],
      [op |-> "fill_solid", ln |-> 768, h |-> 1],
      [op |-> "fill_rgb", ln |-> 769, h |-> 1, rgb |-> <<248, 249, 250>>],
      [op |-> "line_fill_background", ln |-> 770, h |-> 1],
      [op |-> "add_shape", ln |-> 773, prst |-> "ROUNDED_RECTANGLE", left |-> 6400800, top |-> -914400, width |-> 6400800, height |-> 9144000],
      [op |-> "fill_solid", ln |-> 774, h |-> 2],
      [op |-> "fill_rgb", ln |-> 775, h |-> 2, rgb |-> AVEMO_ORANGE],
      [op |-> "line_fill_background", ln |-> 776, h |-> 2],
      [op |-> "adjustment", ln |-> 777, h |-> 2, v |-> 10000],
      [op |-> "add_text_box", ln |-> 780, left |-> 914400, top |-> 2286000, width |-> 4572000, height |-> 914400, text |-> "Fahrersoftware", size |-> 660400, rgb |-> AVEMO_BLACK, bold |-> TRUE, font |-> "Arial", align |-> "LEFT"],
      [op |-> "add_text_box", ln |-> 783, left |-> 914400, top |-> 3291840, width |-> 4572000, height |-> 731520, text |-> "Die Zukunft der Fahrzeugdisposition", size |-> 254000, rgb |-> AVEMO_GRAY_MID, bold |-> FALSE, font |-> "Arial", align |-> "LEFT"],
      [op |-> "add_shape", ln |-> 787, prst |-> "RECTANGLE", left |-> 914400, top |-> 4206240, width |-> 1828800, height |-> 36576],
      [op |-> "fill_solid", ln |-> 788, h |-> 5],
      [op |-> "fill_rgb", ln |-> 789, h |-> 5, rgb |-> AVEMO_ORANGE],
      [op |-> "line_fill_background", ln |-> 790, h |-> 5],
      [op |-> "add_text_box", ln |-> 793, left |-> 6858000, top |-> 2743200, width |-> 4572000, height |-> 1828800, text |-> "Eine Software fuer alle Standorte", size |-> 355600, rgb |-> AVEMO_WHITE, bold |-> TRUE, font |-> "Arial", align |-> "LEFT"],
      \* slide 2 (source lines 798-833)
      [op |-> "add_slide", ln |-> 798],
      [op |-> "add_shape", ln |-> 799, prst |-> "RECTANGLE", left |-> 0, top |-> 0, width |-> SLIDE_WIDTH, height |-> SLIDE_HEIGHT],
      [op |-> "fill_solid", ln |-> 800, h |-> 1],
      [op |-> "fill_rgb", ln |-> 801, h |-> 1, rgb |-> AVEMO_WHITE],
      [op |-> "line_fill_background", ln |-> 802, h |-> 1],
      [op |-> "add_shape", ln |-> 805, prst |-> "RECTANGLE", left |-> 0, top |-> 0, width |-> SLIDE_WIDTH, height |-> 1371600],
      [op |-> "fill_solid", ln |-> 806, h |-> 2],
      [op |-> "fill_rgb", ln |-> 807, h |-> 2, rgb |-> AVEMO_ORANGE],
      [op |-> "line_fill_background", ln |-> 808, h |-> 2],
      [op |-> "add_text_box", ln |-> 810, left |-> 731520, top |-> 457200, width |-> 9144000, height |-> 548640, text |-> "Aktuelle Herausforderungen", size |-> 406400, rgb |-> AVEMO_WHITE, bold |-> TRUE, font |-> "Arial", align |-> "LEFT"],
      [op |-> "add_shape", ln |-> 824, prst |-> "ROUNDED_RECTANGLE", left |-> 731520, top |-> 1645920, width |-> 3200400, height |-> 1828800],
      [op |-> "fill_solid", ln |-> 825, h |-> 4],
      [op |-> "fill_rgb", ln |-> 826, h |-> 4, rgb |-> <<248, 249, 250>>],
      [op |-> "line_fill_background", ln |-> 827, h |-> 4],
      [op |-> "adjustment", ln |-> 828, h |-> 4, v |-> 15000],
      [op |-> "add_text_box", ln |-> 830, left |-> 914400, top |-> 1920240, width |-> 2834640, height |-> 548640, text |-> "Isolierte Standorte", size |-> 228600, rgb |-> AVEMO_BLACK, bold |-> TRUE, font |-> "Arial", align |-> "LEFT"],
      [op |-> "add_text_box", ln |-> 832, left |-> 914400, top |-> 2560320, width |-> 2834640, height |-> 731520, text |-> "Keine Vernetzung zwischen den Niederlassungen", size |-> 165100, rgb |-> AVEMO_GRAY_MID, bold |-> FALSE, font |-> "Arial", align |-> "LEFT"],
      [op |-> "add_shape", ln |-> 824, prst |-> "ROUNDED_RECTANGLE", left |-> 4114800, top |-> 1645920, width |-> 3200400, height |-> 1828800],
      [op |-> "fill_solid", ln |-> 825, h |-> 7],
      [op |-> "fill_rgb", ln |-> 826, h |-> 7, rgb |-> <<248, 249, 250>>],
      [op |-> "line_fill_background", ln |-> 827, h |-> 7],
      [op |-> "adjustment", ln |-> 828, h |-> 7, v |-> 15000],
      [op |-> "add_text_box", ln |-> 830, left |-> 4297680, top |-> 1920240, width |-> 2834640, height |-> 548640, text |-> "Manuelle Prozesse", size |-> 228600, rgb |-> AVEMO_BLACK, bold |-> TRUE, font |-> "Arial", align |-> "LEFT"],
      [op |-> "add_text_box", ln |-> 832, left |-> 4297680, top |-> 2560320, width |-> 2834640, height |-> 731520, text |-> "Abhaengigkeit von Excel und Outlook", size |-> 165100, rgb |-> AVEMO_GRAY_MID, bold |-> FALSE, font |-> "Arial", align |-> "LEFT"],
      [op |-> "add_shape", ln |-> 824, prst |-> "ROUNDED_RECTANGLE", left |-> 7498079, top |-> 1645920, width |-> 3200400, height |-> 1828800],
      [op |-> "fill_solid", ln |-> 825, h |-> 10],
      [op |-> "fill_rgb", ln |-> 826, h |-> 10, rgb |-> <<248, 249, 250>>],
      [op |-> "line_fill_background", ln |-> 827, h |-> 10],
      [op |-> "adjustment", ln |-> 828, h |-> 10, v |-> 15000],
      [op |-> "add_text_box", ln |-> 830, left |-> 7680959, top |-> 1920240, width |-> 2834640, height |-> 548640, text |-> "Fehlende Daten", size |-> 228600, rgb |-> AVEMO_BLACK, bold |-> TRUE, font |-> "Arial", align |-> "LEFT"],
      [op |-> "add_text_box", ln |-> 832, left |-> 7680959, top |-> 2560320, width |-> 2834640, height |-> 731520, text |-> "Keine KPIs fuer Entscheidungen", size |-> 165100, rgb |-> AVEMO_GRAY_MID, bold |-> FALSE, font |-> "Arial", align |-> "LEFT"],
      [op |-> "add_shape", ln |-> 824, prst |-> "ROUNDED_RECTANGLE", left |-> 2377440, top |-> 3840480, width |-> 3200400, height |-> 1828800],
      [op |-> "fill_solid", ln |-> 825, h |-> 13],
      [op |-> "fill_rgb", ln |-> 826, h |-> 13, rgb |-> <<248, 249, 250>>],
      [op |-> "line_fill_background", ln |-> 827, h |-> 13],
      [op |-> "adjustment", ln |-> 828, h |-> 13, v |-> 15000],
      [op |-> "add_text_box", ln |-> 830, left |-> 2560320, top |-> 4114800, width |-> 2834640, height |-> 548640, text |-> "Hohe Leerlaufzeit", size |-> 228600, rgb |-> AVEMO_BLACK, bold |-> TRUE, font |-> "Arial", align |-> "LEFT"],
      [op |-> "add_text_box", ln |-> 832, left |-> 2560320, top |-> 4754880, width |-> 2834640, height |-> 731520, text |-> "2,5 Stunden pro Fahrzeug taeglich", size |-> 165100, rgb |-> AVEMO_GRAY_MID, bold |-> FALSE, font |-> "Arial", align |-> "LEFT"],
      [op |-> "add_shape", ln |-> 824, prst |-> "ROUNDED_RECTANGLE", left |-> 5760720, top |-> 3840480, width |-> 3200400, height |-> 1828800],
      [op |-> "fill_solid", ln |-> 825, h |-> 16],
      [op |-> "fill_rgb", ln |-> 826, h |-> 16, rgb |-> <<248, 249, 250>>],
      [op |-> "line_fill_background", ln |-> 827, h |-> 16],
      [op |-> "adjustment", ln |-> 828, h |-> 16, v |-> 15000],
      [op |-> "add_text_box", ln |-> 830, left |-> 5943600, top |-> 4114800, width |-> 2834640, height |-> 548640, text |-> "Lange Wartezeiten", size |-> 228600, rgb |-> AVEMO_BLACK, bold |-> TRUE, font |-> "Arial", align |-> "LEFT"],
      [op |-> "add_text_box", ln |-> 832, left |-> 5943600, top |-> 4754880, width |-> 2834640, height |-> 731520, text |-> "30 Tage durchschnittlich", size |-> 165100, rgb |-> AVEMO_GRAY_MID, bold |-> FALSE, font |-> "Arial", align |-> "LEFT"],
      \* slide 3 (source lines 836-874)
      [op |-> "add_slide", ln |-> 836],
      [op |-> "add_shape", ln |-> 837, prst |-> "RECTANGLE", left |-> 0, top |-> 0, width |-> SLIDE_WIDTH, height |-> SLIDE_HEIGHT],
      [op |-> "fill_solid", ln |-> 838, h |-> 1],
      [op |-> "fill_rgb", ln |-> 839, h |-> 1, rgb |-> <<248, 249, 250>>],
      [op |-> "line_fill_background", ln |-> 840, h |-> 1],
      [op |-> "add_shape", ln |-> 843, prst |-> "ROUNDED_RECTANGLE", left |-> 731520, top |-> 731520, width |-> 10698480, height |-> 5486400],
      [op |-> "fill_solid", ln |-> 844, h |-> 2],
      [op |-> "fill_rgb", ln |-> 845, h |-> 2, rgb |-> AVEMO_WHITE],
      [op |-> "line_fill_background", ln |-> 846, h |-> 2],
      [op |-> "adjustment", ln |-> 847, h |-> 2, v |-> 5000],
      [op |-> "add_text_box", ln |-> 849, left |-> 1188720, top |-> 1188720, width |-> 5486400, height |-> 457200, text |-> "Die Loesung", size |-> 177800, rgb |-> AVEMO_ORANGE, bold |-> TRUE, font |-> "Arial", align |-> "LEFT"],
      [op |-> "add_text_box", ln |-> 852, left |-> 1188720, top |-> 1737360, width |-> 9144000, height |-> 731520, text |-> "Eine Software fuer alle Standorte", size |-> 457200, rgb |-> AVEMO_BLACK, bold |-> TRUE, font |-> "Arial", align |-> "LEFT"],
      [op |-> "add_shape", ln |-> 866, prst |-> "OVAL", left |-> 1188720, top |-> 2743200, width |-> 365760, height |-> 365760],
      [op |-> "fill_solid", ln |-> 867, h |-> 5],
      [op |-> "fill_rgb", ln |-> 868, h |-> 5, rgb |-> AVEMO_ORANGE],
      [op |-> "line_fill_background", ln |-> 869, h |-> 5],
      [op |-> "add_text_box", ln |-> 871, left |-> 1828800, top |-> 2743200, width |-> 2743200, height |-> 365760, text |-> "Synergien nutzen", size |-> 228600, rgb |-> AVEMO_BLACK, bold |-> TRUE, font |-> "Arial", align |-> "LEFT"],
      [op |-> "add_text_box", ln |-> 873, left |-> 4572000, top |-> 2743200, width |-> 5486400, height |-> 365760, text |-> "Vernetzung aller Standorte fuer maximale Effizienz", size |-> 177800, rgb |-> AVEMO_GRAY_MID, bold |-> FALSE, font |-> "Arial", align |-> "LEFT"],
      [op |-> "add_shape", ln |-> 866, prst |-> "OVAL", left |-> 1188720, top |-> 3566160, width |-> 365760, height |-> 365760],
      [op |-> "fill_solid", ln |-> 867, h |-> 8],
      [op |-> "fill_rgb", ln |-> 868, h |-> 8, rgb |-> AVEMO_ORANGE],
      [op |-> "line_fill_background", ln |-> 869, h |-> 8],
      [op |-> "add_text_box", ln |-> 871, left |-> 1828800, top |-> 3566160, width |-> 2743200, height |-> 365760, text |-> "Effizienz steigern", size |-> 228600, rgb |-> AVEMO_BLACK, bold |-> TRUE, font |-> "Arial", align |-> "LEFT"],
      [op |-> "add_text_box", ln |-> 873, left |-> 4572000, top |-> 3566160, width |-> 5486400, height |-> 365760, text |-> "Optimale Nutzung jedes Fahrzeugs", size |-> 177800, rgb |-> AVEMO_GRAY_MID, bold |-> FALSE, font |-> "Arial", align |-> "LEFT"],
      [op |-> "add_shape", ln |-> 866, prst |-> "OVAL", left |-> 1188720, top |-> 4389120, width |-> 365760, height |-> 365760],
      [op |-> "fill_solid", ln |-> 867, h |-> 11],
      [op |-> "fill_rgb", ln |-> 868, h |-> 11, rgb |-> AVEMO_ORANGE],
      [op |-> "line_fill_background", ln |-> 869, h |-> 11],
      [op |-> "add_text_box", ln |-> 871, left |-> 1828800, top |-> 4389120, width |-> 2743200, height |-> 365760, text |-> "Automatisierung", size |-> 228600, rgb |-> AVEMO_BLACK, bold |-> TRUE, font |-> "Arial", align |-> "LEFT"],
      [op |-> "add_text_box", ln |-> 873, left |-> 4572000, top |-> 4389120, width |-> 5486400, height |-> 365760, text |-> "Reduzierung manueller Prozesse", size |-> 177800, rgb |-> AVEMO_GRAY_MID, bold |-> FALSE, font |-> "Arial", align |-> "LEFT"],
      [op |-> "add_shape", ln |-> 866, prst |-> "OVAL", left |-> 1188720, top |-> 5212080, width |-> 365760, height |-> 365760],
      [op |-> "fill_solid", ln |-> 867, h |-> 14],
      [op |-> "fill_rgb", ln |-> 868, h |-> 14, rgb |-> AVEMO_ORANGE],
      [op |-> "line_fill_background", ln |-> 869, h |-> 14],
      [op |-> "add_text_box", ln |-> 871, left |-> 1828800, top |-> 5212080, width |-> 2743200, height |-> 365760, text |-> "Kosteneinsparung", size |-> 228600, rgb |-> AVEMO_BLACK, bold |-> TRUE, font |-> "Arial", align |-> "LEFT"],
      [op |-> "add_text_box", ln |-> 873, left |-> 4572000, top |-> 5212080, width |-> 5486400, height |-> 365760, text |-> "Potenzial von 260.000 EUR jaehrlich", size |-> 177800, rgb |-> AVEMO_GRAY_MID, bold |-> FALSE, font |-> "Arial", align |-> "LEFT"],
      \* slide 4 (source lines 877-917)
      [op |-> "add_slide", ln |-> 877],
      [op |-> "add_shape", ln |-> 878, prst |-> "RECTANGLE", left |-> 0, top |-> 0, width |-> SLIDE_WIDTH, height |-> SLIDE_HEIGHT],
      [op |-> "fill_solid", ln |-> 879, h |-> 1],
      [op |-> "fill_rgb", ln |-> 880, h |-> 1, rgb |-> AVEMO_WHITE],
      [op |-> "line_fill_background", ln |-> 881, h |-> 1],
      [op |-> "add_text_box", ln |-> 883, left |-> 731520, top |-> 548640, width |-> 7315200, height |-> 457200, text |-> "Minimum Viable Product", size |-> 177800, rgb |-> AVEMO_ORANGE, bold |-> TRUE, font |-> "Arial", align |-> "LEFT"],
      [op |-> "add_text_box", ln |-> 886, left |-> 731520, top |-> 1097280, width |-> 7315200, height |-> 640080, text |-> "Die Kernfunktionen", size |-> 457200, rgb |-> AVEMO_BLACK, bold |-> TRUE, font |-> "Arial", align |-> "LEFT"],
      [op |-> "add_shape", ln |-> 909, prst |-> "ROUNDED_RECTANGLE", left |-> 731520, top |-> 2011680, width |-> 3017520, height |-> 1280160],
      [op |-> "fill_solid", ln |-> 910, h |-> 4],
      [op |-> "fill_rgb", ln |-> 911, h |-> 4, rgb |-> <<248, 249, 250>>],
      [op |-> "line_fill_background", ln |-> 912, h |-> 4],
      [op |-> "adjustment", ln |-> 913, h |-> 4, v |-> 50000],
      [op |-> "add_text_box", ln |-> 916, left |-> 1005840, top |-> 2423160, width |-> 2468880, height |-> 548640, text |-> "Planungsalgorithmus", size |-> 228600, rgb |-> AVEMO_BLACK, bold |-> TRUE, font |-> "Arial", align |-> "LEFT"],
      [op |-> "add_shape", ln |-> 909, prst |-> "ROUNDED_RECTANGLE", left |-> 4114800, top |-> 2011680, width |-> 3017520, height |-> 1280160],
      [op |-> "fill_solid", ln |-> 910, h |-> 6],
      [op |-> "fill_rgb", ln |-> 911, h |-> 6, rgb |-> AVEMO_ORANGE],
      [op |-> "line_fill_background", ln |-> 912, h |-> 6],
      [op |-> "adjustment", ln |-> 913, h |-> 6, v |-> 50000],
      [op |-> "add_text_box", ln |-> 916, left |-> 4389120, top |-> 2423160, width |-> 2468880, height |-> 548640, text |-> "Driver App", size |-> 228600, rgb |-> AVEMO_WHITE, bold |-> TRUE, font |-> "Arial", align |-> "LEFT"],
      [op |-> "add_shape", ln |-> 909, prst |-> "ROUNDED_RECTANGLE", left |-> 731520, top |-> 3657600, width |-> 3017520, height |-> 1280160],
      [op |-> "fill_solid", ln |-> 910, h |-> 8],
      [op |-> "fill_rgb", ln |-> 911, h |-> 8, rgb |-> <<248, 249, 250>>],
      [op |-> "line_fill_background", ln |-> 912, h |-> 8],
      [op |-> "adjustment", ln |-> 913, h |-> 8, v |-> 50000],
      [op |-> "add_text_box", ln |-> 916, left |-> 1005840, top |-> 4069080, width |-> 2468880, height |-> 548640, text |-> "Web-Backoffice", size |-> 228600, rgb |-> AVEMO_BLACK, bold |-> TRUE, font |-> "Arial", align |-> "LEFT"],
      [op |-> "add_shape", ln |-> 909, prst |-> "ROUNDED_RECTANGLE", left |-> 4114800, top |-> 3657600, width |-> 3017520, height |-> 1280160],
      [op |-> "fill_solid", ln |-> 910, h |-> 10],
      [op |-> "fill_rgb", ln |-> 911, h |-> 10, rgb |-> AVEMO_ORANGE],
      [op |-> "line_fill_background", ln |-> 912, h |-> 10],
      [op |-> "adjustment", ln |-> 913, h |-> 10, v |-> 50000],
      [op |-> "add_text_box", ln |-> 916, left |-> 4389120, top |-> 4069080, width |-> 2468880, height |-> 548640, text |-> "Externe Dienstleister", size |-> 228600, rgb |-> AVEMO_WHITE, bold |-> TRUE, font |-> "Arial", align |-> "LEFT"],
      [op |-> "add_shape", ln |-> 909, prst |-> "ROUNDED_RECTANGLE", left |-> 7498079, top |-> 3657600, width |-> 3017520, height |-> 1280160],
      [op |-> "fill_solid", ln |-> 910, h |-> 12],
      [op |-> "fill_rgb", ln |-> 911, h |-> 12, rgb |-> <<248, 249, 250>>],
      [op |-> "line_fill_background", ln |-> 912, h |-> 12],
      [op |-> "adjustment", ln |-> 913, h |-> 12, v |-> 50000],
      [op |-> "add_text_box", ln |-> 916, left |-> 7772400, top |-> 4069080, width |-> 2468880, height |-> 548640, text |-> "Monitoring", size |-> 228600, rgb |-> AVEMO_BLACK, bold |-> TRUE, font |-> "Arial", align |-> "LEFT"],
      [op |-> "add_shape", ln |-> 909, prst |-> "ROUNDED_RECTANGLE", left |-> 4114800, top |-> 5303520, width |-> 3017520, height |-> 1280160],
      [op |-> "fill_solid", ln |-> 910, h |-> 14],
      [op |-> "fill_rgb", ln |-> 911, h |-> 14, rgb |-> AVEMO_ORANGE],
      [op |-> "line_fill_background", ln |-> 912, h |-> 14],
      [op |-> "adjustment", ln |-> 913, h |-> 14, v |-> 50000],
      [op |-> "add_text_box", ln |-> 916, left |-> 4389120, top |-> 5715000, width |-> 2468880, height |-> 548640, text |-> "Reporting", size |-> 228600, rgb |-> AVEMO_WHITE, bold |-> TRUE, font |-> "Arial", align |-> "LEFT"],
      \* slide 5 (source lines 920-940)
      [op |-> "add_slide", ln |-> 920],
      [op |-> "add_shape", ln |-> 923, prst |-> "RECTANGLE", left |-> 0, top |-> 0, width |-> SLIDE_WIDTH, height |-> 3429000],
      [op |-> "fill_solid", ln |-> 924, h |-> 1],
      [op |-> "fill_rgb", ln |-> 925, h |-> 1, rgb |-> AVEMO_BLACK],
      [op |-> "line_fill_background", ln |-> 926, h |-> 1],
      [op |-> "add_shape", ln |-> 928, prst |-> "RECTANGLE", left |-> 0, top |-> 3429000, width |-> SLIDE_WIDTH, height |-> 3429000],
      [op |-> "fill_solid", ln |-> 929, h |-> 2],
      [op |-> "fill_rgb", ln |-> 930, h |-> 2, rgb |-> AVEMO_ORANGE],
      [op |-> "line_fill_background", ln |-> 931, h |-> 2],
      [op |-> "add_text_box", ln |-> 933, left |-> 731520, top |-> 1097280, width |-> 9144000, height |-> 914400, text |-> "Bereit fuer die", size |-> 457200, rgb |-> AVEMO_WHITE, bold |-> FALSE, font |-> "Arial", align |-> "LEFT"],
      [op |-> "add_text_box", ln |-> 935, left |-> 731520, top |-> 1920240, width |-> 9144000, height |-> 914400, text |-> "Zukunft?", size |-> 914400, rgb |-> AVEMO_WHITE, bold |-> TRUE, font |-> "Arial", align |-> "LEFT"],
      [op |-> "add_text_box", ln |-> 938, left |-> 731520, top |-> 4114800, width |-> 9144000, height |-> 914400, text |-> "Gemeinsam gestalten wir die digitale Transformation Ihrer Fahrzeugdisposition.", size |-> 228600, rgb |-> AVEMO_BLACK, bold |-> FALSE, font |-> "Arial", align |-> "LEFT"],
      \* save and acknowledgement (source lines 942-943)
      [op |-> "save", ln |-> 942, path |-> "/root/fahrerplanung/presentations/design-4-asymmetric-modern.pptx"],
      [op |-> "print", ln |-> 943, msg |-> "Created: design-4-asymmetric-modern.pptx"]>>

\* create_presentation_5 (source lines 954-1229)
Deck5 ==
    <<
      \* the new presentation and its canvas (source lines 954-956)
      [op |-> "Presentation", ln |-> 954],
      [op |-> "slide_width", ln |-> 955, v |-> SLIDE_WIDTH],
      [op |-> "slide_height", ln |-> 956, v |-> SLIDE_HEIGHT],
      \* slide 1 (source lines 959-1018)
      [op |-> "add_slide", ln |-> 959],
      [op |-> "add_shape", ln |-> 962, prst |-> "RECTANGLE", left |-> 0, top |-> 0, width |-> SLIDE_WIDTH, height |-> SLIDE_HEIGHT],
      [op |-> "fill_solid", ln |-> 963, h |-> 1],
      [op |-> "fill_rgb", ln |-> 964, h |-> 1, rgb |-> <<10, 14, 23>>],
      [op |-> "line_fill_background", ln |-> 965, h |-> 1],
      [op |-> "add_shape", ln |-> 970, prst |-> "RECTANGLE", left |-> 0, top |-> 0, width |-> 9144, height |-> SLIDE_HEIGHT],
      [op |-> "fill_solid", ln |-> 971, h |-> 2],
      [op |-> "fill_rgb", ln |-> 972, h |-> 2, rgb |-> <<26, 31, 46>>],
      [op |-> "line_fill_background", ln |-> 973, h |-> 2],
      [op |-> "alpha", ln |-> 974, h |-> 2, val |-> 50000],
      [op |-> "add_shape", ln |-> 970, prst |-> "RECTANGLE", left |-> 822960, top |-> 0, width |-> 9144, height |-> SLIDE_HEIGHT],
      [op |-> "fill_solid", ln |-> 971, h |-> 3],
      [op |-> "fill_rgb", ln |-> 972, h |-> 3, rgb |-> <<26, 31, 46>>],
      [op |-> "line_fill_background", ln |-> 973, h |-> 3],
      [op |-> "alpha", ln |-> 974, h |-> 3, val |-> 50000],
      [op |-> "add_shape", ln |-> 970, prst |-> "RECTANGLE", left |-> 1645920, top |-> 0, width |-> 9144, height |-> SLIDE_HEIGHT],
      [op |-> "fill_solid", ln |-> 971, h |-> 4],
      [op |-> "fill_rgb", ln |-> 972, h |-> 4, rgb |-> <<26, 31, 46>>],
      [op |-> "line_fill_background", ln |-> 973, h |-> 4],
      [op |-> "alpha", ln |-> 974, h |-> 4, val |-> 50000],
      [op |-> "add_shape", ln |-> 970, prst |-> "RECTANGLE", left |-> 2468880, top |-> 0, width |-> 9144, height |-> SLIDE_HEIGHT],
      [op |-> "fill_solid", ln |-> 971, h |-> 5],
      [op |-> "fill_rgb", ln |-> 972, h |-> 5, rgb |-> <<26, 31, 46>>],
      [op |-> "line_fill_background", ln |-> 973, h |-> 5],
      [op |-> "alpha", ln |-> 974, h |-> 5, val |-> 50000],
      [op |-> "add_shape", ln |-> 970, prst |-> "RECTANGLE", left |-> 3291840, top |-> 0, width |-> 9144, height |-> SLIDE_HEIGHT],
      [op |-> "fill_solid", ln |-> 971, h |-> 6],
      [op |-> "fill_rgb", ln |-> 972, h |-> 6, rgb |-> <<26, 31, 46>>],
      [op |-> "line_fill_background", ln |-> 973, h |-> 6],
      [op |-> "alpha", ln |-> 974, h |-> 6, val |-> 50000],
      [op |-> "add_shape", ln |-> 970, prst |-> "RECTANGLE", left |-> 4114800, top |-> 0, width |-> 9144, height |-> SLIDE_HEIGHT],
      [op |-> "fill_solid", ln |-> 971, h |-> 7],
      [op |-> "fill_rgb", ln |-> 972, h |-> 7, rgb |-> <<26, 31, 46>>],
      [op |-> "line_fill_background", ln |-> 973, h |-> 7],
      [op |-> "alpha", ln |-> 974, h |-> 7, val |-> 50000],
      [op |-> "add_shape", ln |-> 970, prst |-> "RECTANGLE", left |-> 4937760, top |-> 0, width |-> 9144, height |-> SLIDE_HEIGHT],
      [op |-> "fill_solid", ln |-> 971, h |-> 8],
      [op |-> "fill_rgb", ln |-> 972, h |-> 8, rgb |-> <<26, 31, 46>>],
      [op |-> "line_fill_background", ln |-> 973, h |-> 8],
      [op |-> "alpha", ln |-> 974, h |-> 8, val |-> 50000],
      [op |-> "add_shape", ln |-> 970, prst |-> "RECTANGLE", left |-> 5760720, top |-> 0, width |-> 9144, height |-> SLIDE_HEIGHT],
      [op |-> "fill_solid", ln |-> 971, h |-> 9],
      [op |-> "fill_rgb", ln |-> 972, h |-> 9, rgb |-> <<26, 31, 46>>],
      [op |-> "line_fill_background", ln |-> 973, h |-> 9],
      [op |-> "alpha", ln |-> 974, h |-> 9, val |-> 50000],
      [op |-> "add_shape", ln |-> 970, prst |-> "RECTANGLE", left |-> 6583680, top |-> 0, width |-> 9144, height |-> SLIDE_HEIGHT],
      [op |-> "fill_solid", ln |-> 971, h |-> 10],
      [op |-> "fill_rgb", ln |-> 972, h |-> 10, rgb |-> <<26, 31, 46>>],
      [op |-> "line_fill_background", ln |-> 973, h |-> 10],
      [op |-> "alpha", ln |-> 974, h |-> 10, val |-> 50000],
      [op |-> "add_shape", ln |-> 970, prst |-> "RECTANGLE", left |-> 7406640, top |-> 0, width |-> 9144, height |-> SLIDE_HEIGHT],
      [op |-> "fill_solid", ln |-> 971, h |-> 11],
      [op |-> "fill_rgb", ln |-> 972, h |-> 11, rgb |-> <<26, 31, 46>>],
      [op |-> "line_fill_background", ln |-> 973, h |-> 11],
      [op |-> "alpha", ln |-> 974, h |-> 11, val |-> 50000],
      [op |-> "add_shape", ln |-> 970, prst |-> "RECTANGLE", left |-> 8229600, top |-> 0, width |-> 9144, height |-> SLIDE_HEIGHT],
      [op |-> "fill_solid", ln |-> 971, h |-> 12],
      [op |-> "fill_rgb", ln |-> 972, h |-> 12, rgb |-> <<26, 31, 46>>],
      [op |-> "line_fill_background", ln |-> 973, h |-> 12],
      [op |-> "alpha", ln |-> 974, h |-> 12, val |-> 50000],
      [op |-> "add_shape", ln |-> 970, prst |-> "RECTANGLE", left |-> 9052560, top |-> 0, width |-> 9144, height |-> SLIDE_HEIGHT],
      [op |-> "fill_solid", ln |-> 971, h |-> 13],
      [op |-> "fill_rgb", ln |-> 972, h |-> 13, rgb |-> <<26, 31, 46>>],
      [op |-> "line_fill_background", ln |-> 973, h |-> 13],
      [op |-> "alpha", ln |-> 974, h |-> 13, val |-> 50000],
      [op |-> "add_shape", ln |-> 970, prst |-> "RECTANGLE", left |-> 9875520, top |-> 0, width |-> 9144, height |-> SLIDE_HEIGHT],
      [op |-> "fill_solid", ln |-> 971, h |-> 14],
      [op |-> "fill_rgb", ln |-> 972, h |-> 14, rgb |-> <<26, 31, 46>>],
      [op |-> "line_fill_background", ln |-> 973, h |-> 14],
      [op |-> "alpha", ln |-> 974, h |-> 14, val |-> 50000],
      [op |-> "add_shape", ln |-> 970, prst |-> "RECTANGLE", left |-> 10698480, top |-> 0, width |-> 9144, height |-> SLIDE_HEIGHT],
      [op |-> "fill_solid", ln |-> 971, h |-> 15],
      [op |-> "fill_rgb", ln |-> 972, h |-> 15, rgb |-> <<26, 31, 46>>],
      [op |-> "line_fill_background", ln |-> 973, h |-> 15],
      [op |-> "alpha", ln |-> 974, h |-> 15, val |-> 50000],
      [op |-> "add_shape", ln |-> 970, prst |-> "RECTANGLE", left |-> 11521440, top |-> 0, width |-> 9144, height |-> SLIDE_HEIGHT],
      [op |-> "fill_solid", ln |-> 971, h |-> 16],
      [op |-> "fill_rgb", ln |-> 972, h |-> 16, rgb |-> <<26, 31, 46>>],
      [op |-> "line_fill_background", ln |-> 973, h |-> 16],
      [op |-> "alpha", ln |-> 974, h |-> 16, val |-> 50000],
      [op |-> "add_shape", ln |-> 983, prst |-> "ROUNDED_RECTANGLE", left |-> 914400, top |-> 1371600, width |-> 10058400, height |-> 4114800],
      [op |-> "fill_solid", ln |-> 984, h |-> 17],
      [op |-> "fill_rgb", ln |-> 985, h |-> 17, rgb |-> <<17, 24, 39>>],
      [op |-> "line_rgb", ln |-> 986, h |-> 17, rgb |-> <<255, 121, 50>>],
      [op |-> "line_width", ln |-> 987, h |-> 17, v |-> 25400],
      [op |-> "alpha", ln |-> 988, h |-> 17, val |-> 80000],
      [op |-> "add_shape", ln |-> 997, prst |-> "RECTANGLE", left |-> 914400, top |-> 1371600, width |-> 182880, height |-> 4114800],
      [op |-> "fill_solid", ln |-> 998, h |-> 18],
      [op |-> "fill_rgb", ln |-> 999, h |-> 18, rgb |-> AVEMO_ORANGE],
      [op |-> "line_fill_background", ln |-> 1000, h |-> 18],
      [op |-> "add_text_box", ln |-> 1002, left |-> 1371600, top |-> 1645920, width |-> 9144000, height |-> 1097280, text |-> "Fahrersoftware", size |-> 812800, rgb |-> AVEMO_WHITE, bold |-> TRUE, font |-> "Arial", align |-> "LEFT"],
      [op |-> "add_text_box", ln |-> 1005, left |-> 1371600, top |-> 2926080, width |-> 9144000, height |-> 548640, text |-> "Die Zukunft der Fahrzeugdisposition", size |-> 304800, rgb |-> <<138, 154, 176>>, bold |-> FALSE, font |-> "Arial", align |-> "LEFT"],
      [op |-> "add_text_box", ln |-> 1008, left |-> 1371600, top |-> 3840480, width |-> 9144000, height |-> 548640, text |-> "Eine Software fuer alle Standorte", size |-> 254000, rgb |-> AVEMO_ORANGE, bold |-> TRUE, font |-> "Arial", align |-> "LEFT"],
      [op |-> "add_text_box", ln |-> 1015, left |-> 1371600, top |-> 5669280, width |-> 2743200, height |-> 548640, text |-> "260KEUR", size |-> 406400, rgb |-> AVEMO_ORANGE, bold |-> TRUE, font |-> "Arial", align |-> "LEFT"],
      [op |-> "add_text_box", ln |-> 1017, left |-> 1371600, top |-> 6217920, width |-> 2743200, height |-> 365760, text |-> "Einsparung", size |-> 152400, rgb |-> <<138, 154, 176>>, bold |-> FALSE, font |-> "Arial", align |-> "LEFT"],
      [op |-> "add_text_box", ln |-> 1015, left |-> 4572000, top |-> 5669280, width |-> 2743200, height |-> 548640, text |-> "30", size |-> 406400, rgb |-> AVEMO_ORANGE, bold |-> TRUE, font |-> "Arial", align |-> "LEFT"],
      [op |-> "add_text_box", ln |-> 1017, left |-> 4572000, top |-> 6217920, width |-> 2743200, height |-> 365760, text |-> "Tage gespart", size |-> 152400, rgb |-> <<138, 154, 176>>, bold |-> FALSE, font |-> "Arial", align |-> "LEFT"],
      [op |-> "add_text_box", ln |-> 1015, left |-> 7772400, top |-> 5669280, width |-> 2743200, height |-> 548640, text |-> "2.5h", size |-> 406400, rgb |-> AVEMO_ORANGE, bold |-> TRUE, font |-> "Arial", align |-> "LEFT"],
      [op |-> "add_text_box", ln |-> 1017, left |-> 7772400, top |-> 6217920, width |-> 2743200, height |-> 365760, text |-> "Weniger Leerlauf", size |-> 152400, rgb |-> <<138, 154, 176>>, bold |-> FALSE, font |-> "Arial", align |-> "LEFT"],
      \* slide 2 (source lines 1021-1074)
      [op |-> "add_slide", ln |-> 1021],
      [op |-> "add_shape", ln |-> 1022, prst |-> "RECTANGLE", left |-> 0, top |-> 0, width |-> SLIDE_WIDTH, height |-> SLIDE_HEIGHT],
      [op |-> "fill_solid", ln |-> 1023, h |-> 1],
      [op |-> "fill_rgb", ln |-> 1024, h |-> 1, rgb |-> <<10, 14, 23>>],
      [op |-> "line_fill_background", ln |-> 1025, h |-> 1],
      [op |-> "add_shape", ln |-> 1028, prst |-> "RECTANGLE", left |-> 0, top |-> 0, width |-> SLIDE_WIDTH, height |-> 1097280],
      [op |-> "fill_solid", ln |-> 1029, h |-> 2],
      [op |-> "fill_rgb", ln |-> 1030, h |-> 2, rgb |-> <<17, 24, 39>>],
      [op |-> "line_fill_background", ln |-> 1031, h |-> 2],
      [op |-> "add_text_box", ln |-> 1033, left |-> 731520, top |-> 320040, width |-> 9144000, height |-> 548640, text |-> "SYSTEM STATUS: PROBLEME ERKANNT", size |-> 228600, rgb |-> AVEMO_ORANGE, bold |-> TRUE, font |-> "Arial", align |-> "LEFT"],
      [op |-> "add_shape", ln |-> 1051, prst |-> "ROUNDED_RECTANGLE", left |-> 731520, top |-> 1463040, width |-> 5029200, height |-> 2194560],
      [op |-> "fill_solid", ln |-> 1052, h |-> 4],
      [op |-> "fill_rgb", ln |-> 1053, h |-> 4, rgb |-> <<17, 24, 39>>],
      [op |-> "line_rgb", ln |-> 1054, h |-> 4, rgb |-> <<255, 121, 50>>],
      [op |-> "line_width", ln |-> 1055, h |-> 4, v |-> 19050],
      [op |-> "add_text_box", ln |-> 1057, left |-> 1005840, top |-> 1645920, width |-> 2743200, height |-> 365760, text |-> "Standorte", size |-> 177800, rgb |-> <<138, 154, 176>>, bold |-> FALSE, font |-> "Arial", align |-> "LEFT"],
      [op |-> "add_text_box", ln |-> 1060, left |-> 1005840, top |-> 2103120, width |-> 2743200, height |-> 731520, text |-> "5", size |-> 609600, rgb |-> AVEMO_WHITE, bold |-> TRUE, font |-> "Arial", align |-> "LEFT"],
      [op |-> "add_text_box", ln |-> 1063, left |-> 1005840, top |-> 2834640, width |-> 2743200, height |-> 365760, text |-> "Isoliert", size |-> 177800, rgb |-> <<138, 154, 176>>, bold |-> FALSE, font |-> "Arial", align |-> "LEFT"],
      [op |-> "add_shape", ln |-> 1068, prst |-> "OVAL", left |-> 4846320, top |-> 1737360, width |-> 457200, height |-> 457200],
      [op |-> "fill_solid", ln |-> 1069, h |-> 8],
      [op |-> "fill_rgb", ln |-> 1070, h |-> 8, rgb |-> AVEMO_ORANGE],
      [op |-> "line_fill_background", ln |-> 1071, h |-> 8],
      [op |-> "add_text_box", ln |-> 1073, left |-> 4572000, top |-> 2286000, width |-> 914400, height |-> 365760, text |-> "CRITICAL", size |-> 127000, rgb |-> AVEMO_ORANGE, bold |-> TRUE, font |-> "Arial", align |-> "LEFT"],
      [op |-> "add_shape", ln |-> 1051, prst |-> "ROUNDED_RECTANGLE", left |-> 6217920, top |-> 1463040, width |-> 5029200, height |-> 2194560],
      [op |-> "fill_solid", ln |-> 1052, h |-> 10],
      [op |-> "fill_rgb", ln |-> 1053, h |-> 10, rgb |-> <<17, 24, 39>>],
      [op |-> "line_rgb", ln |-> 1054, h |-> 10, rgb |-> <<51, 68, 102>>],
      [op |-> "line_width", ln |-> 1055, h |-> 10, v |-> 19050],
      [op |-> "add_text_box", ln |-> 1057, left |-> 6492240, top |-> 1645920, width |-> 2743200, height |-> 365760, text |-> "Prozesse", size |-> 177800, rgb |-> <<138, 154, 176>>, bold |-> FALSE, font |-> "Arial", align |-> "LEFT"],
      [op |-> "add_text_box", ln |-> 1060, left |-> 6492240, top |-> 2103120, width |-> 2743200, height |-> 731520, text |-> "100%", size |-> 609600, rgb |-> AVEMO_WHITE, bold |-> TRUE, font |-> "Arial", align |-> "LEFT"],
      [op |-> "add_text_box", ln |-> 1063, left |-> 6492240, top |-> 2834640, width |-> 2743200, height |-> 365760, text |-> "Manuell", size |-> 177800, rgb |-> <<138, 154, 176>>, bold |-> FALSE, font |-> "Arial", align |-> "LEFT"],
      [op |-> "add_shape", ln |-> 1068, prst |-> "OVAL", left |-> 10332720, top |-> 1737360, width |-> 457200, height |-> 457200],
      [op |-> "fill_solid", ln |-> 1069, h |-> 14],
      [op |-> "fill_rgb", ln |-> 1070, h |-> 14, rgb |-> <<255, 193, 7>>],
      [op |-> "line_fill_background", ln |-> 1071, h |-> 14],
      [op |-> "add_text_box", ln |-> 1073, left |-> 10058400, top |-> 2286000, width |-> 914400, height |-> 365760, text |-> "WARNING", size |-> 127000, rgb |-> <<255, 193, 7>>, bold |-> TRUE, font |-> "Arial", align |-> "LEFT"],
      [op |-> "add_shape", ln |-> 1051, prst |-> "ROUNDED_RECTANGLE", left |-> 731520, top |-> 4023360, width |-> 5029200, height |-> 2194560],
      [op |-> "fill_solid", ln |-> 1052, h |-> 16],
      [op |-> "fill_rgb", ln |-> 1053, h |-> 16, rgb |-> <<17, 24, 39>>],
      [op |-> "line_rgb", ln |-> 1054, h |-> 16, rgb |-> <<51, 68, 102>>],
      [op |-> "line_width", ln |-> 1055, h |-> 16, v |-> 19050],
      [op |-> "add_text_box", ln |-> 1057, left |-> 1005840, top |-> 4206240, width |-> 2743200, height |-> 365760, text |-> "Leerlauf", size |-> 177800, rgb |-> <<138, 154, 176>>, bold |-> FALSE, font |-> "Arial", align |-> "LEFT"],
      [op |-> "add_text_box", ln |-> 1060, left |-> 1005840, top |-> 4663440, width |-> 2743200, height |-> 731520, text |-> "2.5h", size |-> 609600, rgb |-> AVEMO_WHITE, bold |-> TRUE, font |-> "Arial", align |-> "LEFT"],
      [op |-> "add_text_box", ln |-> 1063, left |-> 1005840, top |-> 5394960, width |-> 2743200, height |-> 365760, text |-> "Pro Tag", size |-> 177800, rgb |-> <<138, 154, 176>>, bold |-> FALSE, font |-> "Arial", align |-> "LEFT"],
      [op |-> "add_shape", ln |-> 1068, prst |-> "OVAL", left |-> 4846320, top |-> 4297680, width |-> 457200, height |-> 457200],
      [op |-> "fill_solid", ln |-> 1069, h |-> 20],
      [op |-> "fill_rgb", ln |-> 1070, h |-> 20, rgb |-> <<255, 193, 7>>],
      [op |-> "line_fill_background", ln |-> 1071, h |-> 20],
      [op |-> "add_text_box", ln |-> 1073, left |-> 4572000, top |-> 4846320, width |-> 914400, height |-> 365760, text |-> "WARNING", size |-> 127000, rgb |-> <<255, 193, 7>>, bold |-> TRUE, font |-> "Arial", align |-> "LEFT"],
      [op |-> "add_shape", ln |-> 1051, prst |-> "ROUNDED_RECTANGLE", left |-> 6217920, top |-> 4023360, width |-> 5029200, height |-> 2194560],
      [op |-> "fill_solid", ln |-> 1052, h |-> 22],
      [op |-> "fill_rgb", ln |-> 1053, h |-> 22, rgb |-> <<17, 24, 39>>],
      [op |-> "line_rgb", ln |-> 1054, h |-> 22, rgb |-> <<255, 121, 50>>],
      [op |-> "line_width", ln |-> 1055, h |-> 22, v |-> 19050],
      [op |-> "add_text_box", ln |-> 1057, left |-> 6492240, top |-> 4206240, width |-> 2743200, height |-> 365760, text |-> "Wartezeit", size |-> 177800, rgb |-> <<138, 154, 176>>, bold |-> FALSE, font |-> "Arial", align |-> "LEFT"],
      [op |-> "add_text_box", ln |-> 1060, left |-> 6492240, top |-> 4663440, width |-> 2743200, height |-> 731520, text |-> "30", size |-> 609600, rgb |-> AVEMO_WHITE, bold |-> TRUE, font |-> "Arial", align |-> "LEFT"],
      [op |-> "add_text_box", ln |-> 1063, left |-> 6492240, top |-> 5394960, width |-> 2743200, height |-> 365760, text |-> "Tage", size |-> 177800, rgb |-> <<138, 154, 176>>, bold |-> FALSE, font |-> "Arial", align |-> "LEFT"],
      [op |-> "add_shape", ln |-> 1068, prst |-> "OVAL", left |-> 10332720, top |-> 4297680, width |-> 457200, height |-> 457200],
      [op |-> "fill_solid", ln |-> 1069, h |-> 26],
      [op |-> "fill_rgb", ln |-> 1070, h |-> 26, rgb |-> AVEMO_ORANGE],
      [op |-> "line_fill_background", ln |-> 1071, h |-> 26],
      [op |-> "add_text_box", ln |-> 1073, left |-> 10058400, top |-> 4846320, width |-> 914400, height |-> 365760, text |-> "CRITICAL", size |-> 127000, rgb |-> AVEMO_ORANGE, bold |-> TRUE, font |-> "Arial", align |-> "LEFT"],
      \* slide 3 (source lines 1077-1143)
      [op |-> "add_slide", ln |-> 1077],
      [op |-> "add_shape", ln |-> 1078, prst |-> "RECTANGLE", left |-> 0, top |-> 0, width |-> SLIDE_WIDTH, height |-> SLIDE_HEIGHT],
      [op |-> "fill_solid", ln |-> 1079, h |-> 1],
      [op |-> "fill_rgb", ln |-> 1080, h |-> 1, rgb |-> <<10, 14, 23>>],
      [op |-> "line_fill_background", ln |-> 1081, h |-> 1],
      [op |-> "add_shape", ln |-> 1083, prst |-> "RECTANGLE", left |-> 0, top |-> 0, width |-> SLIDE_WIDTH, height |-> 1097280],
      [op |-> "fill_solid", ln |-> 1084, h |-> 2],
      [op |-> "fill_rgb", ln |-> 1085, h |-> 2, rgb |-> <<17, 24, 39>>],
      [op |-> "line_fill_background", ln |-> 1086, h |-> 2],
      [op |-> "add_text_box", ln |-> 1088, left |-> 731520, top |-> 320040, width |-> 9144000, height |-> 548640, text |-> "SYSTEM UPGRADE: LOeSUNG BEREIT", size |-> 228600, rgb |-> AVEMO_ORANGE, bold |-> TRUE, font |-> "Arial", align |-> "LEFT"],
      [op |-> "add_shape", ln |-> 1092, prst |-> "ROUNDED_RECTANGLE", left |-> 731520, top |-> 1463040, width |-> 6400800, height |-> 4937760],
      [op |-> "fill_solid", ln |-> 1093, h |-> 4],
      [op |-> "fill_rgb", ln |-> 1094, h |-> 4, rgb |-> <<17, 24, 39>>],
      [op |-> "line_rgb", ln |-> 1095, h |-> 4, rgb |-> AVEMO_ORANGE],
      [op |-> "line_width", ln |-> 1096, h |-> 4, v |-> 25400],
      [op |-> "add_text_box", ln |-> 1098, left |-> 1005840, top |-> 1737360, width |-> 5486400, height |-> 731520, text |-> "Eine Software fuer alle Standorte", size |-> 355600, rgb |-> AVEMO_WHITE, bold |-> TRUE, font |-> "Arial", align |-> "LEFT"],
      [op |-> "add_shape", ln |-> 1112, prst |-> "OVAL", left |-> 1005840, top |-> 2788920, width |-> 274320, height |-> 274320],
      [op |-> "fill_solid", ln |-> 1113, h |-> 6],
      [op |-> "fill_rgb", ln |-> 1114, h |-> 6, rgb |-> AVEMO_ORANGE],
      [op |-> "line_fill_background", ln |-> 1115, h |-> 6],
      [op |-> "add_text_box", ln |-> 1117, left |-> 1463040, top |-> 2743200, width |-> 1828800, height |-> 365760, text |-> "Synergien", size |-> 203200, rgb |-> AVEMO_ORANGE, bold |-> TRUE, font |-> "Arial", align |-> "LEFT"],
      [op |-> "add_text_box", ln |-> 1119, left |-> 2926080, top |-> 2743200, width |-> 3657600, height |-> 365760, text |-> "Vernetzung aller Standorte", size |-> 177800, rgb |-> <<138, 154, 176>>, bold |-> FALSE, font |-> "Arial", align |-> "LEFT"],
      [op |-> "add_shape", ln |-> 1112, prst |-> "OVAL", left |-> 1005840, top |-> 3611880, width |-> 274320, height |-> 274320],
      [op |-> "fill_solid", ln |-> 1113, h |-> 9],
      [op |-> "fill_rgb", ln |-> 1114, h |-> 9, rgb |-> AVEMO_ORANGE],
      [op |-> "line_fill_background", ln |-> 1115, h |-> 9],
      [op |-> "add_text_box", ln |-> 1117, left |-> 1463040, top |-> 3566160, width |-> 1828800, height |-> 365760, text |-> "Effizienz", size |-> 203200, rgb |-> AVEMO_ORANGE, bold |-> TRUE, font |-> "Arial", align |-> "LEFT"],
      [op |-> "add_text_box", ln |-> 1119, left |-> 2926080, top |-> 3566160, width |-> 3657600, height |-> 365760, text |-> "Optimale Nutzung", size |-> 177800, rgb |-> <<138, 154, 176>>, bold |-> FALSE, font |-> "Arial", align |-> "LEFT"],
      [op |-> "add_shape", ln |-> 1112, prst |-> "OVAL", left |-> 1005840, top |-> 4434840, width |-> 274320, height |-> 274320],
      [op |-> "fill_solid", ln |-> 1113, h |-> 12],
      [op |-> "fill_rgb", ln |-> 1114, h |-> 12, rgb |-> AVEMO_ORANGE],
      [op |-> "line_fill_background", ln |-> 1115, h |-> 12],
      [op |-> "add_text_box", ln |-> 1117, left |-> 1463040, top |-> 4389120, width |-> 1828800, height |-> 365760, text |-> "Automatisierung", size |-> 203200, rgb |-> AVEMO_ORANGE, bold |-> TRUE, font |-> "Arial", align |-> "LEFT"],
      [op |-> "add_text_box", ln |-> 1119, left |-> 2926080, top |-> 4389120, width |-> 3657600, height |-> 365760, text |-> "Weniger manuelle Arbeit", size |-> 177800, rgb |-> <<138, 154, 176>>, bold |-> FALSE, font |-> "Arial", align |-> "LEFT"],
      [op |-> "add_shape", ln |-> 1112, prst |-> "OVAL", left |-> 1005840, top |-> 5257800, width |-> 274320, height |-> 274320],
      [op |-> "fill_solid", ln |-> 1113, h |-> 15],
      [op |-> "fill_rgb", ln |-> 1114, h |-> 15, rgb |-> AVEMO_ORANGE],
      [op |-> "line_fill_background", ln |-> 1115, h |-> 15],
      [op |-> "add_text_box", ln |-> 1117, left |-> 1463040, top |-> 5212080, width |-> 1828800, height |-> 365760, text |-> "Einsparung", size |-> 203200, rgb |-> AVEMO_ORANGE, bold |-> TRUE, font |-> "Arial", align |-> "LEFT"],
      [op |-> "add_text_box", ln |-> 1119, left |-> 2926080, top |-> 5212080, width |-> 3657600, height |-> 365760, text |-> "260.000 EUR jaehrlich", size |-> 177800, rgb |-> <<138, 154, 176>>, bold |-> FALSE, font |-> "Arial", align |-> "LEFT"],
      [op |-> "add_shape", ln |-> 1123, prst |-> "ROUNDED_RECTANGLE", left |-> 7315200, top |-> 1463040, width |-> 4114800, height |-> 4937760],
      [op |-> "fill_solid", ln |-> 1124, h |-> 18],
      [op |-> "fill_rgb", ln |-> 1125, h |-> 18, rgb |-> <<17, 24, 39>>],
      [op |-> "line_fill_background", ln |-> 1126, h |-> 18],
      [op |-> "add_text_box", ln |-> 1128, left |-> 7589520, top |-> 1737360, width |-> 3657600, height |-> 457200, text |-> "PROJEKTIERTE METRIKEN", size |-> 152400, rgb |-> AVEMO_ORANGE, bold |-> TRUE, font |-> "Arial", align |-> "LEFT"],
      [op |-> "add_text_box", ln |-> 1140, left |-> 7589520, top |-> 2377440, width |-> 1828800, height |-> 365760, text |-> "ROI", size |-> 177800, rgb |-> <<138, 154, 176>>, bold |-> FALSE, font |-> "Arial", align |-> "LEFT"],
      [op |-> "add_text_box", ln |-> 1142, left |-> 7589520, top |-> 2743200, width |-> 3657600, height |-> 457200, text |-> "< 12 Monate", size |-> 304800, rgb |-> AVEMO_WHITE, bold |-> TRUE, font |-> "Arial", align |-> "LEFT"],
      [op |-> "add_text_box", ln |-> 1140, left |-> 7589520, top |-> 3383280, width |-> 1828800, height |-> 365760, text |-> "Effizienz", size |-> 177800, rgb |-> <<138, 154, 176>>, bold |-> FALSE, font |-> "Arial", align |-> "LEFT"],
      [op |-> "add_text_box", ln |-> 1142, left |-> 7589520, top |-> 3749040, width |-> 3657600, height |-> 457200, text |-> "+ 40%", size |-> 304800, rgb |-> AVEMO_WHITE, bold |-> TRUE, font |-> "Arial", align |-> "LEFT"],
      [op |-> "add_text_box", ln |-> 1140, left |-> 7589520, top |-> 4389120, width |-> 1828800, height |-> 365760, text |-> "Transparenz", size |-> 177800, rgb |-> <<138, 154, 176>>, bold |-> FALSE, font |-> "Arial", align |-> "LEFT"],
      [op |-> "add_text_box", ln |-> 1142, left |-> 7589520, top |-> 4754880, width |-> 3657600, height |-> 457200, text |-> "100%", size |-> 304800, rgb |-> AVEMO_WHITE, bold |-> TRUE, font |-> "Arial", align |-> "LEFT"],
      [op |-> "add_text_box", ln |-> 1140, left |-> 7589520, top |-> 5394960, width |-> 1828800, height |-> 365760, text |-> "Standorte", size |-> 177800, rgb |-> <<138, 154, 176>>, bold |-> FALSE, font |-> "Arial", align |-> "LEFT"],
      [op |-> "add_text_box", ln |-> 1142, left |-> 7589520, top |-> 5760720, width |-> 3657600, height |-> 457200, text |-> "Verbindung", size |-> 304800, rgb |-> AVEMO_WHITE, bold |-> TRUE, font |-> "Arial", align |-> "LEFT"],
      \* slide 4 (source lines 1146-1192)
      [op |-> "add_slide", ln |-> 1146],
      [op |-> "add_shape", ln |-> 1147, prst |-> "RECTANGLE", left |-> 0, top |-> 0, width |-> SLIDE_WIDTH, height |-> SLIDE_HEIGHT],
      [op |-> "fill_solid", ln |-> 1148, h |-> 1],
      [op |-> "fill_rgb", ln |-> 1149, h |-> 1, rgb |-> <<10, 14, 23>>],
      [op |-> "line_fill_background", ln |-> 1150, h |-> 1],
      [op |-> "add_shape", ln |-> 1152, prst |-> "RECTANGLE", left |-> 0, top |-> 0, width |-> SLIDE_WIDTH, height |-> 1097280],
      [op |-> "fill_solid", ln |-> 1153, h |-> 2],
      [op |-> "fill_rgb", ln |-> 1154, h |-> 2, rgb |-> <<17, 24, 39>>],
      [op |-> "line_fill_background", ln |-> 1155, h |-> 2],
      [op |-> "add_text_box", ln |-> 1157, left |-> 731520, top |-> 320040, width |-> 9144000, height |-> 548640, text |-> "MODULE: MINIMUM VIABLE PRODUCT", size |-> 228600, rgb |-> AVEMO_ORANGE, bold |-> TRUE, font |-> "Arial", align |-> "LEFT"],
      [op |-> "add_shape", ln |-> 1176, prst |-> "ROUNDED_RECTANGLE", left |-> 731520, top |-> 1463040, width |-> 3474720, height |-> 2194560],
      [op |-> "fill_solid", ln |-> 1177, h |-> 4],
      [op |-> "fill_rgb", ln |-> 1178, h |-> 4, rgb |-> <<17, 24, 39>>],
      [op |-> "line_rgb", ln |-> 1179, h |-> 4, rgb |-> <<51, 68, 102>>],
      [op |-> "line_width", ln |-> 1180, h |-> 4, v |-> 12700],
      [op |-> "add_text_box", ln |-> 1183, left |-> 914400, top |-> 1645920, width |-> 3108960, height |-> 320040, text |-> "ALGORITHM", size |-> 139700, rgb |-> AVEMO_ORANGE, bold |-> TRUE, font |-> "Arial", align |-> "LEFT"],
      [op |-> "add_text_box", ln |-> 1187, left |-> 914400, top |-> 2194560, width |-> 3108960, height |-> 731520, text |-> "Planungs-Engine", size |-> 279400, rgb |-> AVEMO_WHITE, bold |-> TRUE, font |-> "Arial", align |-> "LEFT"],
      [op |-> "add_text_box", ln |-> 1191, left |-> 3474720, top |-> 3200400, width |-> 548640, height |-> 365760, text |-> "M01", size |-> 127000, rgb |-> <<138, 154, 176>>, bold |-> FALSE, font |-> "Arial", align |-> "LEFT"],
      [op |-> "add_shape", ln |-> 1176, prst |-> "ROUNDED_RECTANGLE", left |-> 4480559, top |-> 1463040, width |-> 3474720, height |-> 2194560],
      [op |-> "fill_solid", ln |-> 1177, h |-> 8],
      [op |-> "fill_rgb", ln |-> 1178, h |-> 8, rgb |-> <<17, 24, 39>>],
      [op |-> "line_rgb", ln |-> 1179, h |-> 8, rgb |-> <<51, 68, 102>>],
      [op |-> "line_width", ln |-> 1180, h |-> 8, v |-> 12700],
      [op |-> "add_text_box", ln |-> 1183, left |-> 4663439, top |-> 1645920, width |-> 3108960, height |-> 320040, text |-> "MOBILE", size |-> 139700, rgb |-> AVEMO_ORANGE, bold |-> TRUE, font |-> "Arial", align |-> "LEFT"],
      [op |-> "add_text_box", ln |-> 1187, left |-> 4663439, top |-> 2194560, width |-> 3108960, height |-> 731520, text |-> "Driver App", size |-> 279400, rgb |-> AVEMO_WHITE, bold |-> TRUE, font |-> "Arial", align |-> "LEFT"],
      [op |-> "add_text_box", ln |-> 1191, left |-> 7223759, top |-> 3200400, width |-> 548640, height |-> 365760, text |-> "M02", size |-> 127000, rgb |-> <<138, 154, 176>>, bold |-> FALSE, font |-> "Arial", align |-> "LEFT"],
      [op |-> "add_shape", ln |-> 1176, prst |-> "ROUNDED_RECTANGLE", left |-> 8229600, top |-> 1463040, width |-> 3474720, height |-> 2194560],
      [op |-> "fill_solid", ln |-> 1177, h |-> 12],
      [op |-> "fill_rgb", ln |-> 1178, h |-> 12, rgb |-> <<17, 24, 39>>],
      [op |-> "line_rgb", ln |-> 1179, h |-> 12, rgb |-> <<51, 68, 102>>],
      [op |-> "line_width", ln |-> 1180, h |-> 12, v |-> 12700],
      [op |-> "add_text_box", ln |-> 1183, left |-> 8412480, top |-> 1645920, width |-> 3108960, height |-> 320040, text |-> "WEB", size |-> 139700, rgb |-> AVEMO_ORANGE, bold |-> TRUE, font |-> "Arial", align |-> "LEFT"],
      [op |-> "add_text_box", ln |-> 1187, left |-> 8412480, top |-> 2194560, width |-> 3108960, height |-> 731520, text |-> "Backoffice", size |-> 279400, rgb |-> AVEMO_WHITE, bold |-> TRUE, font |-> "Arial", align |-> "LEFT"],
      [op |-> "add_text_box", ln |-> 1191, left |-> 10972800, top |-> 3200400, width |-> 548640, height |-> 365760, text |-> "M03", size |-> 127000, rgb |-> <<138, 154, 176>>, bold |-> FALSE, font |-> "Arial", align |-> "LEFT"],
      [op |-> "add_shape", ln |-> 1176, prst |-> "ROUNDED_RECTANGLE", left |-> 731520, top |-> 4023360, width |-> 3474720, height |-> 2194560],
      [op |-> "fill_solid", ln |-> 1177, h |-> 16],
      [op |-> "fill_rgb", ln |-> 1178, h |-> 16, rgb |-> <<17, 24, 39>>],
      [op |-> "line_rgb", ln |-> 1179, h |-> 16, rgb |-> <<51, 68, 102>>],
      [op |-> "line_width", ln |-> 1180, h |-> 16, v |-> 12700],
      [op |-> "add_text_box", ln |-> 1183, left |-> 914400, top |-> 4206240, width |-> 3108960, height |-> 320040, text |-> "INTEGRATION", size |-> 139700, rgb |-> AVEMO_ORANGE, bold |-> TRUE, font |-> "Arial", align |-> "LEFT"],
      [op |-> "add_text_box", ln |-> 1187, left |-> 914400, top |-> 4754880, width |-> 3108960, height |-> 731520, text |-> "Externe APIs", size |-> 279400, rgb |-> AVEMO_WHITE, bold |-> TRUE, font |-> "Arial", align |-> "LEFT"],
      [op |-> "add_text_box", ln |-> 1191, left |-> 3474720, top |-> 5760720, width |-> 548640, height |-> 365760, text |-> "M04", size |-> 127000, rgb |-> <<138, 154, 176>>, bold |-> FALSE, font |-> "Arial", align |-> "LEFT"],
      [op |-> "add_shape", ln |-> 1176, prst |-> "ROUNDED_RECTANGLE", left |-> 4480559, top |-> 4023360, width |-> 3474720, height |-> 2194560],
      [op |-> "fill_solid", ln |-> 1177, h |-> 20],
      [op |-> "fill_rgb", ln |-> 1178, h |-> 20, rgb |-> <<17, 24, 39>>],
      [op |-> "line_rgb", ln |-> 1179, h |-> 20, rgb |-> <<51, 68, 102>>],
      [op |-> "line_width", ln |-> 1180, h |-> 20, v |-> 12700],
      [op |-> "add_text_box", ln |-> 1183, left |-> 4663439, top |-> 4206240, width |-> 3108960, height |-> 320040, text |-> "MONITOR", size |-> 139700, rgb |-> AVEMO_ORANGE, bold |-> TRUE, font |-> "Arial", align |-> "LEFT"],
      [op |-> "add_text_box", ln |-> 1187, left |-> 4663439, top |-> 4754880, width |-> 3108960, height |-> 731520, text |-> "Live-Dashboard", size |-> 279400, rgb |-> AVEMO_WHITE, bold |-> TRUE, font |-> "Arial", align |-> "LEFT"],
      [op |-> "add_text_box", ln |-> 1191, left |-> 7223759, top |-> 5760720, width |-> 548640, height |-> 365760, text |-> "M05", size |-> 127000, rgb |-> <<138, 154, 176>>, bold |-> FALSE, font |-> "Arial", align |-> "LEFT"],
      [op |-> "add_shape", ln |-> 1176, prst |-> "ROUNDED_RECTANGLE", left |-> 8229600, top |-> 4023360, width |-> 3474720, height |-> 2194560],
      [op |-> "fill_solid", ln |-> 1177, h |-> 24],
      [op |-> "fill_rgb", ln |-> 1178, h |-> 24, rgb |-> <<17, 24, 39>>],
      [op |-> "line_rgb", ln |-> 1179, h |-> 24, rgb |-> <<51, 68, 102>>],
      [op |-> "line_width", ln |-> 1180, h |-> 24, v |-> 12700],
      [op |-> "add_text_box", ln |-> 1183, left |-> 8412480, top |-> 4206240, width |-> 3108960, height |-> 320040, text |-> "ANALYTICS", size |-> 139700, rgb |-> AVEMO_ORANGE, bold |-> TRUE, font |-> "Arial", align |-> "LEFT"],
      [op |-> "add_text_box", ln |-> 1187, left |-> 8412480, top |-> 4754880, width |-> 3108960, height |-> 731520, text |-> "Reporting", size |-> 279400, rgb |-> AVEMO_WHITE, bold |-> TRUE, font |-> "Arial", align |-> "LEFT"],
      [op |-> "add_text_box", ln |-> 1191, left |-> 10972800, top |-> 5760720, width |-> 548640, height |-> 365760, text |-> "M06", size |-> 127000, rgb |-> <<138, 154, 176>>, bold |-> FALSE, font |-> "Arial", align |-> "LEFT"],
      \* slide 5 (source lines 1195-1226)
      [op |-> "add_slide", ln |-> 1195],
      [op |-> "add_shape", ln |-> 1196, prst |-> "RECTANGLE", left |-> 0, top |-> 0, width |-> SLIDE_WIDTH, height |-> SLIDE_HEIGHT],
      [op |-> "fill_solid", ln |-> 1197, h |-> 1],
      [op |-> "fill_rgb", ln |-> 1198, h |-> 1, rgb |-> <<10, 14, 23>>],
      [op |-> "line_fill_background", ln |-> 1199, h |-> 1],
      [op |-> "add_shape", ln |-> 1202, prst |-> "ROUNDED_RECTANGLE", left |-> 1828800, top |-> 1371600, width |-> 8503920, height |-> 4114800],
      [op |-> "fill_solid", ln |-> 1203, h |-> 2],
      [op |-> "fill_rgb", ln |-> 1204, h |-> 2, rgb |-> <<17, 24, 39>>],
      [op |-> "line_rgb", ln |-> 1205, h |-> 2, rgb |-> AVEMO_ORANGE],
      [op |-> "line_width", ln |-> 1206, h |-> 2, v |-> 38100],
      [op |-> "add_shape", ln |-> 1210, prst |-> "ROUNDED_RECTANGLE", left |-> 1810512, top |-> 1353312, width |-> 8540496, height |-> 4151376],
      [op |-> "fill_background", ln |-> 1213, h |-> 3],
      [op |-> "line_rgb", ln |-> 1214, h |-> 3, rgb |-> AVEMO_ORANGE],
      [op |-> "line_width", ln |-> 1215, h |-> 3, v |-> 12700],
      [op |-> "spPr", ln |-> 1216, h |-> 3],
      [op |-> "add_shape", ln |-> 1210, prst |-> "ROUNDED_RECTANGLE", left |-> 1792224, top |-> 1335024, width |-> 8577072, height |-> 4187952],
      [op |-> "fill_background", ln |-> 1213, h |-> 4],
      [op |-> "line_rgb", ln |-> 1214, h |-> 4, rgb |-> AVEMO_ORANGE],
      [op |-> "line_width", ln |-> 1215, h |-> 4, v |-> 12700],
      [op |-> "spPr", ln |-> 1216, h |-> 4],
      [op |-> "add_text_box", ln |-> 1218, left |-> 2286000, top |-> 2011680, width |-> 7315200, height |-> 914400, text |-> "SYSTEM READY", size |-> 228600, rgb |-> AVEMO_ORANGE, bold |-> TRUE, font |-> "Arial", align |-> "LEFT"],
      [op |-> "add_text_box", ln |-> 1221, left |-> 2286000, top |-> 2743200, width |-> 7315200, height |-> 914400, text |-> "Bereit fuer die Zukunft?", size |-> 558800, rgb |-> AVEMO_WHITE, bold |-> TRUE, font |-> "Arial", align |-> "LEFT"],
      [op |-> "add_text_box", ln |-> 1224, left |-> 2286000, top |-> 3840480, width |-> 7315200, height |-> 731520, text |-> "Gemeinsam transformieren wir Ihre Fahrzeugdisposition.", size |-> 203200, rgb |-> <<138, 154, 176>>, bold |-> FALSE, font |-> "Arial", align |-> "LEFT"],
      \* save and acknowledgement (source lines 1228-1229)
      [op |-> "save", ln |-> 1228, path |-> "/root/fahrerplanung/presentations/design-5-dashboard-tech.pptx"],
      [op |-> "print", ln |-> 1229, msg |-> "Created: design-5-dashboard-tech.pptx"]>>
(***************************************************************************)
(* The main block: two header lines, the five builds in order, two closing *)
(* lines.  No statement of it is inside a try.                             *)
(***************************************************************************)
\* The main block calling build 2 before build 1.
MutMainSwapped ==
    <<[op |-> "print", ln |-> 1233, k |-> 0, msg |-> "Creating 5 sophisticated AVEMO presentations..."],
      [op |-> "print", ln |-> 1234, k |-> 0, msg |-> "============================================================"],
      [op |-> "call", ln |-> 1236, k |-> 2, msg |-> ""],
      [op |-> "call", ln |-> 1235, k |-> 1, msg |-> ""],
      [op |-> "call", ln |-> 1237, k |-> 3, msg |-> ""],
      [op |-> "call", ln |-> 1238, k |-> 4, msg |-> ""],
      [op |-> "call", ln |-> 1239, k |-> 5, msg |-> ""],
      [op |-> "print", ln |-> 1240, k |-> 0, msg |-> "============================================================"],
      [op |-> "print", ln |-> 1241, k |-> 0, msg |-> "All presentations created successfully!"]>>

Main ==
    <<[op |-> "print", ln |-> 1233, k |-> 0, msg |-> "Creating 5 sophisticated AVEMO presentations..."],
      [op |-> "print", ln |-> 1234, k |-> 0, msg |-> "============================================================"],
      [op |-> "call", ln |-> 1235, k |-> 1, msg |-> ""],
      [op |-> "call", ln |-> 1236, k |-> 2, msg |-> ""],
      [op |-> "call", ln |-> 1237, k |-> 3, msg |-> ""],
      [op |-> "call", ln |-> 1238, k |-> 4, msg |-> ""],
      [op |-> "call", ln |-> 1239, k |-> 5, msg |-> ""],
      [op |-> "print", ln |-> 1240, k |-> 0, msg |-> "============================================================"],
      [op |-> "print", ln |-> 1241, k |-> 0, msg |-> "All presentations created successfully!"]>>

Decks == {Main[i].k : i \in {j \in 1..Len(Main) : Main[j].op = "call"}}

Deck(k) ==
    CASE k = 1 -> Deck1
      [] k = 2 -> Deck2
      [] k = 3 -> Deck3
      [] k = 4 -> Deck4
      [] k = 5 -> Deck5

\* The save statement and the acknowledgement of build k.
SaveAt(k) == CHOOSE i \in 1..Len(Deck(k)) : Deck(k)[i].op = "save"

SavePath(k) == Deck(k)[SaveAt(k)].path

CreatedMsg(k) == Deck(k)[SaveAt(k) + 1].msg

Paths == {SavePath(k) : k \in Decks}

(***************************************************************************)
(* prs.save(path): the presentation written out as a flat stream, element  *)
(* after element in shape-tree order, every list preceded by its length;   *)
(* reading a file back parses that stream.                                 *)
(***************************************************************************)
SerList(s) == <<Len(s)>> \o s

SerShape(e) ==
    <<"sp", e.id, e.txBox, e.prst, e.left, e.top, e.width, e.height, e.rot>>
        \o SerList(e.adj)
        \o <<e.fill>> \o SerList(e.rgb) \o SerList(e.alpha)
        \o <<e.lnFill>> \o SerList(e.lnRgb) \o SerList(e.lnWidth)
        \o <<e.text.wrap, e.text.text, e.text.size>> \o SerList(e.text.rgb)
        \o <<e.text.bold, e.text.font, e.text.align>>

RECURSIVE SerShapes(_, _)
SerShapes(slide, i) ==
    IF i > Len(slide) THEN << >>
    ELSE SerShape(slide[i]) \o SerShapes(slide, i + 1)

SerSlide(slide) == <<"sld", Len(slide)>> \o SerShapes(slide, 1)

RECURSIVE SerSlides(_, _)
SerSlides(slides, i) ==
    IF i > Len(slides) THEN << >>
    ELSE SerSlide(slides[i]) \o SerSlides(slides, i + 1)

Serialize(p) ==
    <<"prs", p.width, p.height, Len(p.slides)>> \o SerSlides(p.slides, 1)

ReadList(t, i) == [val |-> SubSeq(t, i + 1, i + t[i]), next |-> i + t[i] + 1]

ParseShape(t, i) ==
    LET adj  == ReadList(t, i + 9)
        rgb  == ReadList(t, adj.next + 1)
        alp  == ReadList(t, rgb.next)
        lrgb == ReadList(t, alp.next + 1)
        lw   == ReadList(t, lrgb.next)
        trgb == ReadList(t, lw.next + 3)
    IN  [e |-> [id |-> t[i + 1], txBox |-> t[i + 2], prst |-> t[i + 3],
                left |-> t[i + 4], top |-> t[i + 5],
                width |-> t[i + 6], height |-> t[i + 7],
                rot |-> t[i + 8], adj |-> adj.val,
                fill |-> t[adj.next], rgb |-> rgb.val, alpha |-> alp.val,
                lnFill |-> t[alp.next], lnRgb |-> lrgb.val, lnWidth |-> lw.val,
                text |-> [wrap |-> t[lw.next], text |-> t[lw.next + 1],
                          size |-> t[lw.next + 2], rgb |-> trgb.val,
                          bold |-> t[trgb.next], font |-> t[trgb.next + 1],
                          align |-> t[trgb.next + 2]]],
         next |-> trgb.next + 3]

RECURSIVE ParseShapes(_, _, _)
ParseShapes(t, i, n) ==
    IF n = 0 THEN [val |-> << >>, next |-> i]
    ELSE LET one  == ParseShape(t, i)
             rest == ParseShapes(t, one.next, n - 1)
         IN  [val |-> <<one.e>> \o rest.val, next |-> rest.next]

RECURSIVE ParseSlides(_, _, _)
ParseSlides(t, i, n) ==
    IF n = 0 THEN [val |-> << >>, next |-> i]
    ELSE LET one  == ParseShapes(t, i + 2, t[i + 1])
             rest == ParseSlides(t, one.next, n - 1)
         IN  [val |-> <<one.val>> \o rest.val, next |-> rest.next]

\* Presentation(path) of a complete file.
Parse(t) ==
    [open |-> TRUE, width |-> t[2], height |-> t[3],
     slides |-> ParseSlides(t, 5, t[4]).val]

\* A write that fails part-way leaves a strict prefix of the stream.
PartialCuts(t) == {0, Len(t) \div 2, Len(t) - 1}

(***************************************************************************)
(* The state machine.                                                      *)
(***************************************************************************)
Running == exc = NoExc /\ mpc <= Len(Main)

InDeck == Running /\ Main[mpc].op = "call"

K == Main[mpc].k

Prog == Deck(K)

Cur == Prog[pc + 1]

At(o) == InDeck /\ pc < Len(Prog) /\ Cur.op = o

Target == CurSlide(prs)[Cur.h]

\* A colour literal of the statement being run, as RGBColor receives it.
BadColor == <<256, 0, 0>>

Lit(c) == IF fault.k = K /\ fault.ln = Cur.ln THEN BadColor ELSE c

Advance ==
    /\ pc' = pc + 1
    /\ UNCHANGED <<mpc, files, stdout, exc, fault, reopened, did, now, ctx>>

\* An exception nobody catches ends the program where it is.
Raise(type, arg) ==
    /\ exc' = [type |-> type, arg |-> arg]
    /\ UNCHANGED <<mpc, pc, prs, files, stdout, fault, reopened, did, now, ctx>>

Init ==
    /\ mpc = 1
    /\ pc = 0
    /\ prs = NoPrs
    /\ files = [p \in Paths |-> NoFile]
    /\ stdout = << >>
    /\ exc = NoExc
    /\ fault = NoFault
    /\ reopened = NoPrs
    /\ did = NoCall
    /\ now = 0
    /\ ctx = NoCtx

MainPrint ==
    /\ Running
    /\ Main[mpc].op = "print"
    /\ stdout' = Append(stdout, Main[mpc].msg)
    /\ mpc' = mpc + 1
    /\ UNCHANGED <<pc, prs, files, exc, fault, reopened, did, now, ctx>>

StepPresentation ==
    /\ At("Presentation")
    /\ prs' = Presentation
    /\ Advance

\* The width assigned to the height attribute.
MutStepSlideWidthSetsHeight ==
    /\ At("slide_width")
    /\ prs' = [prs EXCEPT !.height = Cur.v]
    /\ Advance

\* A build that leaves the template's slide width.
MutStepSlideWidthSkipped ==
    /\ At("slide_width")
    /\ prs' = prs
    /\ Advance

StepSlideWidth ==
    /\ At("slide_width")
    /\ prs' = [prs EXCEPT !.width = Cur.v]
    /\ Advance

StepSlideHeight ==
    /\ At("slide_height")
    /\ prs' = [prs EXCEPT !.height = Cur.v]
    /\ Advance

StepAddSlide ==
    /\ At("add_slide")
    /\ prs' = add_slide(prs)
    /\ Advance

StepAddShape ==
    /\ At("add_shape")
    /\ prs' = WithCurSlide(prs, add_shape(CurSlide(prs), Cur.prst, Cur.left,
                                           Cur.top, Cur.width, Cur.height))
    /\ Advance

StepFillSolid ==
    /\ At("fill_solid")
    /\ prs' = OnShape(prs, Cur.h, fill_solid(Target))
    /\ Advance

StepFillRgb ==
    /\ At("fill_rgb")
    /\ IF RGBColorRaises(Lit(Cur.rgb)) THEN Raise("ValueError", "RGBColor")
       ELSE IF fore_color_raises(Target) THEN Raise("TypeError", "fore_color")
       ELSE /\ prs' = OnShape(prs, Cur.h, fill_rgb(Target, Cur.rgb))
            /\ Advance

StepFillBackground ==
    /\ At("fill_background")
    /\ prs' = OnShape(prs, Cur.h, fill_background(Target))
    /\ Advance

StepLineFillBackground ==
    /\ At("line_fill_background")
    /\ prs' = OnShape(prs, Cur.h, line_fill_background(Target))
    /\ Advance

StepLineRgb ==
    /\ At("line_rgb")
    /\ IF RGBColorRaises(Lit(Cur.rgb)) THEN Raise("ValueError", "RGBColor")
       ELSE /\ prs' = OnShape(prs, Cur.h, line_rgb(Target, Cur.rgb))
            /\ Advance

StepLineWidth ==
    /\ At("line_width")
    /\ prs' = OnShape(prs, Cur.h, line_width(Target, Cur.v))
    /\ Advance

StepRotation ==
    /\ At("rotation")
    /\ prs' = OnShape(prs, Cur.h, set_rotation(Target, Cur.v))
    /\ Advance

StepAdjustment ==
    /\ At("adjustment")
    /\ prs' = OnShape(prs, Cur.h, set_adjustment(Target, Cur.v))
    /\ Advance

\* The opacity snippet on the shape variable it names.
\* The snippet reaching the shape an earlier snippet of the slide acted on
\* (a variable not rebound), when there is one.
MutStepAlphaStale ==
    /\ At("alpha")
    /\ LET done == {h \in 1..Len(CurSlide(prs)) : CurSlide(prs)[h].alpha # << >>}
           h0   == IF done = {} THEN Cur.h ELSE CHOOSE h \in done : \A g \in done : h <= g
       IN  prs' = OnShape(prs, h0, InjectAlpha(CurSlide(prs)[h0], Cur.val))
    /\ Advance

StepAlpha ==
    /\ At("alpha")
    /\ prs' = OnShape(prs, Cur.h, InjectAlpha(Target, Cur.val))
    /\ Advance

\* `spPr = border._element.spPr' alone: the shape properties are fetched
\* and nothing is done with them.
StepSpPr ==
    /\ At("spPr")
    /\ prs' = prs
    /\ Advance

StepAddTextBox ==
    /\ At("add_text_box")
    /\ IF RGBColorRaises(Lit(Cur.rgb)) THEN Raise("ValueError", "RGBColor")
       ELSE /\ prs' = WithCurSlide(prs,
                        add_text_box(CurSlide(prs), Cur.left, Cur.top, Cur.width,
                                     Cur.height, Cur.text, Cur.size, Cur.rgb,
                                     Cur.bold, Cur.font, Cur.align))
            /\ Advance

StepFontName ==
    /\ At("font_name")
    /\ prs' = OnShape(prs, Cur.h, set_font_name(Target, Cur.v))
    /\ Advance

\* prs.save(path): the file is written whole, or the path cannot be opened
\* (OSError, nothing written), or the write fails part-way (OSError, a
\* truncated file stays).  The package writer stamps the ZIP members it
\* writes with the local time.
SaveOk(path) ==
    /\ files' = [files EXCEPT ![path] =
                    [exists |-> TRUE, complete |-> TRUE, data |-> Serialize(prs),
                     mtime |-> now]]
    /\ UNCHANGED exc

SaveOpenFails(path) ==
    /\ exc' = [type |-> "OSError", arg |-> path]
    /\ UNCHANGED files

SaveWriteFails(path) ==
    /\ \E n \in PartialCuts(Serialize(prs)) :
          files' = [files EXCEPT ![path] =
                      [exists |-> TRUE, complete |-> FALSE,
                       data |-> SubSeq(Serialize(prs), 1, n), mtime |-> now]]
    /\ exc' = [type |-> "OSError", arg |-> path]

\* A save whose failure is swallowed: the build goes on to its print.
MutStepSaveSwallowed ==
    /\ At("save")
    /\ \/ SaveOk(Cur.path) /\ pc' = pc + 1
       \/ UNCHANGED <<files, exc>> /\ pc' = pc + 1
    /\ UNCHANGED <<mpc, prs, stdout, fault, reopened, did, now, ctx>>

StepSave ==
    /\ At("save")
    /\ \/ SaveOk(Cur.path) /\ pc' = pc + 1
       \/ SaveOpenFails(Cur.path) /\ pc' = pc
       \/ SaveWriteFails(Cur.path) /\ pc' = pc
    /\ UNCHANGED <<mpc, prs, stdout, fault, reopened, did, now, ctx>>

\* An acknowledgement that also begins a slide.
MutStepCreatedAddsSlide ==
    /\ At("print")
    /\ stdout' = Append(stdout, Cur.msg)
    /\ pc' = pc + 1
    /\ prs' = add_slide(prs)
    /\ UNCHANGED <<mpc, files, exc, fault, reopened, did, now, ctx>>

\* print("Created: ...") at the end of a build.
StepCreated ==
    /\ At("print")
    /\ stdout' = Append(stdout, Cur.msg)
    /\ pc' = pc + 1
    /\ UNCHANGED <<mpc, prs, files, exc, fault, reopened, did, now, ctx>>

\* create_presentation_k returns to the main block.
Return ==
    /\ InDeck
    /\ pc = Len(Prog)
    /\ mpc' = mpc + 1
    /\ pc' = 0
    /\ prs' = NoPrs
    /\ UNCHANGED <<files, stdout, exc, fault, reopened, did, now, ctx>>

Step ==
    \/ StepPresentation \/ StepSlideWidth \/ StepSlideHeight \/ StepAddSlide
    \/ StepAddShape \/ StepFillSolid \/ StepFillRgb \/ StepFillBackground
    \/ StepLineFillBackground \/ StepLineRgb \/ StepLineWidth \/ StepRotation
    \/ StepAdjustment \/ StepAlpha \/ StepSpPr \/ StepAddTextBox
    \/ StepFontName \/ StepSave \/ StepCreated

Next == MainPrint \/ Step \/ Return

Spec == Init /\ [][Next]_vars

(***************************************************************************)
(* The same program with one inline colour literal out of range.  The      *)
(* literals of the source are all in range, so Spec never raises from      *)
(* RGBColor; SpecFault asks what the program does when one were not.  A    *)
(* site is a build and the source line of an inline RGBColor(...) call.    *)
(***************************************************************************)
FaultSites ==
    {[k |-> 1, ln |-> 81], [k |-> 2, ln |-> 352], [k |-> 3, ln |-> 694],
     [k |-> 4, ln |-> 769], [k |-> 5, ln |-> 964], [k |-> 5, ln |-> 1224]}

InitFault ==
    /\ mpc = 1
    /\ pc = 0
    /\ prs = NoPrs
    /\ files = [p \in Paths |-> NoFile]
    /\ stdout = << >>
    /\ exc = NoExc
    /\ fault \in FaultSites
    /\ reopened = NoPrs
    /\ did = NoCall
    /\ now = 0
    /\ ctx = NoCtx

SpecFault == InitFault /\ [][Next]_vars

\* A run with all literals in range, or with one of them out of range.
InitAny == Init \/ InitFault

SpecAny == InitAny /\ [][Next]_vars

Terminated == ~Running

(***************************************************************************)
(* A build called a second time: create_presentation_k has come to its end *)
(* and is called again, as by a caller who regenerates a deck.  The new    *)
(* call starts like the first, with its own `prs'; the file of the earlier *)
(* call is still there and the clock reads a later tick (a call within the *)
(* same tick stamps its file like the first).                              *)
(***************************************************************************)
MaxClock == 1

CallAgain ==
    /\ InDeck
    /\ pc = Len(Prog)
    /\ now < MaxClock
    /\ now' \in (now + 1)..MaxClock
    /\ pc' = 0
    /\ prs' = NoPrs
    /\ UNCHANGED <<mpc, files, stdout, exc, fault, reopened, did, ctx>>

NextTwice == Next \/ CallAgain

SpecTwice == Init /\ [][NextTwice]_vars
(***************************************************************************)
(* The calls of the source applied to arguments of the caller's choice,    *)
(* on the last slide of the presentation being built.  Each call acts on   *)
(* the shape variable last assigned, the last element of the slide; `did'  *)
(* remembers the call just made.  The write of a save succeeds here: what  *)
(* a failing write does is part of Spec.                                   *)
(***************************************************************************)
Called(op, p) == did' = [op |-> op, p |-> p, at |-> NoGeom, rgb |-> NoColor]

\* A placing call, with the left, top, width and height and the colour it
\* was given.
Placed(op, p, g, c) ==
    did' = [op |-> op, p |-> p,
            at |-> [left |-> g.left, top |-> g.top,
                    width |-> g.width, height |-> g.height],
            rgb |-> c]

\* The deck under construction: opened, with a slide, not yet saved.
Building == InDeck /\ prs.open /\ Len(prs.slides) > 0 /\ ~files[SavePath(K)].exists

HasShape == Building /\ Len(CurSlide(prs)) > 0

LastIx == Len(CurSlide(prs))

LastShape == CurSlide(prs)[LastIx]

HFrame == UNCHANGED <<mpc, stdout, fault, now, ctx>>

\* prs = Presentation(); prs.slide_width = ...; prs.slide_height = ...;
\* slide = prs.slides.add_slide(...)
DoOpen ==
    /\ InDeck /\ ~prs.open /\ ~files[SavePath(K)].exists
    /\ prs' = add_slide([Presentation EXCEPT !.width = SLIDE_WIDTH,
                                             !.height = SLIDE_HEIGHT])
    /\ Called("open", 0)
    /\ UNCHANGED <<files, exc, reopened>> /\ HFrame

DoAddShape(g) ==
    /\ Building
    /\ prs' = WithCurSlide(prs, add_shape(CurSlide(prs), g.prst, g.left,
                                          g.top, g.width, g.height))
    /\ Placed("add_shape", 0, g, NoColor)
    /\ UNCHANGED <<files, exc, reopened>> /\ HFrame

DoFillSolid ==
    /\ HasShape
    /\ prs' = OnShape(prs, LastIx, fill_solid(LastShape))
    /\ Called("fill_solid", 0)
    /\ UNCHANGED <<files, exc, reopened>> /\ HFrame

DoFillRgb(c) ==
    /\ HasShape
    /\ ~fore_color_raises(LastShape)
    /\ prs' = OnShape(prs, LastIx, fill_rgb(LastShape, c))
    /\ Called("fill_rgb", 0)
    /\ UNCHANGED <<files, exc, reopened>> /\ HFrame

DoFillBackground ==
    /\ HasShape
    /\ prs' = OnShape(prs, LastIx, fill_background(LastShape))
    /\ Called("fill_background", 0)
    /\ UNCHANGED <<files, exc, reopened>> /\ HFrame

DoLineFillBackground ==
    /\ HasShape
    /\ prs' = OnShape(prs, LastIx, line_fill_background(LastShape))
    /\ Called("line_fill_background", 0)
    /\ UNCHANGED <<files, exc, reopened>> /\ HFrame

DoLineRgb(c) ==
    /\ HasShape
    /\ prs' = OnShape(prs, LastIx, line_rgb(LastShape, c))
    /\ Called("line_rgb", 0)
    /\ UNCHANGED <<files, exc, reopened>> /\ HFrame

DoLineWidth(w) ==
    /\ HasShape
    /\ prs' = OnShape(prs, LastIx, line_width(LastShape, w))
    /\ Called("line_width", 0)
    /\ UNCHANGED <<files, exc, reopened>> /\ HFrame

\* The opacity snippet with val = p * 1000.
DoAlpha(p) ==
    /\ HasShape
    /\ prs' = OnShape(prs, LastIx, InjectAlpha(LastShape, AlphaVal(p)))
    /\ Called("alpha", p)
    /\ UNCHANGED <<files, exc, reopened>> /\ HFrame

DoAddTextBox(t) ==
    /\ Building
    /\ prs' = WithCurSlide(prs,
                 add_text_box(CurSlide(prs), t.left, t.top, t.width, t.height,
                              t.text, t.size, t.rgb, t.bold, t.font, t.align))
    /\ Placed("add_text_box", 0, t, t.rgb)
    /\ UNCHANGED <<files, exc, reopened>> /\ HFrame

\* add_shape_with_opacity(slide, prst, ..., c, opacity = p / 100, l)
DoAddShapeWithOpacity(g, c, p, l) ==
    /\ Building
    /\ prs' = WithCurSlide(prs,
                 add_shape_with_opacity(CurSlide(prs), g.prst, g.left, g.top,
                                        g.width, g.height, c, p, l))
    /\ Placed("add_shape_with_opacity", p, g, c)
    /\ UNCHANGED <<files, exc, reopened>> /\ HFrame

DoSave ==
    /\ Building
    /\ SaveOk(SavePath(K))
    /\ Called("save", 0)
    /\ UNCHANGED <<prs, reopened>> /\ HFrame

\* Presentation(path) of the file just saved.
DoReopen ==
    /\ InDeck /\ files[SavePath(K)].complete /\ ~reopened.open
    /\ reopened' = Parse(files[SavePath(K)].data)
    /\ Called("reopen", 0)
    /\ UNCHANGED <<prs, files, exc>> /\ HFrame

FirstCall == CHOOSE i \in 1..Len(Main) :
                 Main[i].op = "call" /\ \A j \in 1..(i - 1) : Main[j].op # "call"

InitOps ==
    /\ mpc = FirstCall
    /\ pc = 0
    /\ prs = NoPrs
    /\ files = [p \in Paths |-> NoFile]
    /\ stdout = << >>
    /\ exc = NoExc
    /\ fault = NoFault
    /\ reopened = NoPrs
    /\ did = NoCall
    /\ now = 0
    /\ ctx = NoCtx

(***************************************************************************)
(* SpecOps: one slide built by any sequence of the calls.                  *)
(***************************************************************************)
MaxElems == 1

MaxAlpha == 2

FullCanvas ==
    [prst |-> "RECTANGLE", left |-> 0, top |-> 0,
     width |-> SLIDE_WIDTH, height |-> SLIDE_HEIGHT]

Card ==
    [prst |-> "ROUNDED_RECTANGLE", left |-> 731520, top |-> 4754880,
     width |-> 6400800, height |-> 1371600]

ShapeInputs == {FullCanvas, Card}

FillInputs == {AVEMO_BLACK}

LineInputs == {NoColor, AVEMO_ORANGE}

PercentInputs == {15, 70}

TitleText ==
    [left |-> 914400, top |-> 5029200, width |-> 6035040, height |-> 914400,
     text |-> "Title", size |-> 254000, rgb |-> AVEMO_WHITE, bold |-> FALSE,
     font |-> "Arial", align |-> "LEFT"]

TextInputs == {TitleText}

Room == Building /\ Len(CurSlide(prs)) < MaxElems

HOpen == DoOpen /\ pc' = pc

HAddShape == Room /\ pc' = pc /\ \E g \in ShapeInputs : DoAddShape(g)

HFillSolid == DoFillSolid /\ pc' = pc

HFillRgb == pc' = pc /\ \E c \in FillInputs : DoFillRgb(c)

HFillBackground == DoFillBackground /\ pc' = pc

HAlpha ==
    /\ HasShape /\ Len(LastShape.alpha) < MaxAlpha
    /\ pc' = pc
    /\ \E p \in PercentInputs : DoAlpha(p)

HAddTextBox == Room /\ pc' = pc /\ \E t \in TextInputs : DoAddTextBox(t)

HAddShapeWithOpacity ==
    /\ Room /\ pc' = pc
    /\ \E g \in ShapeInputs, c \in FillInputs, l \in LineInputs,
          p \in PercentInputs \cup {100} : DoAddShapeWithOpacity(g, c, p, l)

HSave == DoSave /\ pc' = pc

HReopen == DoReopen /\ pc' = pc

NextOps ==
    \/ HOpen \/ HAddShape \/ HFillSolid \/ HFillRgb \/ HFillBackground
    \/ HAlpha \/ HAddTextBox \/ HAddShapeWithOpacity \/ HSave \/ HReopen

SpecOps == InitOps /\ [][NextOps]_vars

(***************************************************************************)
(* SpecE2E: one slide built the way slide 1 of create_presentation_1 builds *)
(* its background, its card and the card's text, then saved and read back.  *)
(* `pc' counts the statements done.  The background is drawn by the four    *)
(* statements of the source or by add_shape_with_opacity at full opacity.   *)
(***************************************************************************)
CardText ==
    [left |-> 914400, top |-> 5029200, width |-> 6035040, height |-> 914400,
     text |-> "Eine Software fuer alle Standorte", size |-> 254000,
     rgb |-> AVEMO_WHITE, bold |-> FALSE, font |-> "Arial", align |-> "LEFT"]

HeadText ==
    [left |-> 731520, top |-> 2011680, width |-> 9144000, height |-> 1371600,
     text |-> "Fahrersoftware", size |-> 1219200,
     rgb |-> AVEMO_WHITE, bold |-> TRUE, font |-> "Arial", align |-> "LEFT"]

Tile ==
    [prst |-> "ROUNDED_RECTANGLE", left |-> 457200, top |-> 2743200,
     width |-> 3657600, height |-> 777240]

BgFills == {<<13, 13, 13>>, AVEMO_BLACK}

CardInputs == {Card, Tile}

CardFills == {AVEMO_BLACK, <<0, 0, 0>>}

E2ETexts == {CardText, HeadText, TitleText}

EOpen == pc = 0 /\ DoOpen /\ pc' = 1

EBg == pc = 1 /\ DoAddShape(FullCanvas) /\ pc' = 2

EBgSolid == pc = 2 /\ DoFillSolid /\ pc' = 3

EBgRgb == pc = 3 /\ pc' = 4 /\ \E c \in BgFills : DoFillRgb(c)

EBgLine == pc = 4 /\ DoLineFillBackground /\ pc' = 5

EBgOpaque ==
    /\ pc = 1 /\ pc' = 5
    /\ \E c \in BgFills : DoAddShapeWithOpacity(FullCanvas, c, 100, NoColor)

ECard == pc = 5 /\ pc' = 6 /\ \E g \in CardInputs : DoAddShape(g)

ECardSolid == pc = 6 /\ DoFillSolid /\ pc' = 7

ECardRgb == pc = 7 /\ pc' = 8 /\ \E c \in CardFills : DoFillRgb(c)

ECardLineRgb == pc = 8 /\ DoLineRgb(AVEMO_ORANGE) /\ pc' = 9

ECardLineWidth == pc = 9 /\ DoLineWidth(25400) /\ pc' = 10

ECardAlpha == pc = 10 /\ DoAlpha(70) /\ pc' = 11

EText == pc = 11 /\ pc' = 12 /\ \E t \in E2ETexts : DoAddTextBox(t)

ESave == pc = 12 /\ DoSave /\ pc' = 13

EReopen == pc = 13 /\ DoReopen /\ pc' = 14

NextE2E ==
    \/ EOpen \/ EBg \/ EBgSolid \/ EBgRgb \/ EBgLine \/ EBgOpaque
    \/ ECard \/ ECardSolid \/ ECardRgb \/ ECardLineRgb \/ ECardLineWidth
    \/ ECardAlpha \/ EText \/ ESave \/ EReopen

SpecE2E == InitOps /\ [][NextE2E]_vars

(***************************************************************************)
(* One worker per build.  Builds are started as workers that take turns    *)
(* statement by statement, in any interleaving.  A worker runs             *)
(* create_presentation_k with locals of its own (`prs', and the position   *)
(* `pc'); `ctx' keeps the locals of the workers that are not running.  The *)
(* files and the output are shared.  WorkerSets names the builds started   *)
(* together.  When the workers are done the main block is run as it        *)
(* stands, so that what it saves can be set against what they saved.       *)
(***************************************************************************)
WorkerSets == {{1, 3}}

Forked == ctx # NoCtx

Fresh == [pc |-> 0, prs |-> NoPrs]

CallAt(k) == CHOOSE i \in 1..Len(Main) : Main[i].op = "call" /\ Main[i].k = k

\* A resumed worker finds the slide of the worker that ran meanwhile.
MutResumedSharedSlide(k) ==
    IF ctx[k].prs.open /\ prs.open /\ Len(ctx[k].prs.slides) > 0 /\ Len(prs.slides) > 0
    THEN WithCurSlide(ctx[k].prs, CurSlide(ctx[k].prs) \o CurSlide(prs))
    ELSE ctx[k].prs

\* The presentation a resumed worker goes on with: its own local `prs'.
Resumed(k) == ctx[k].prs

\* The workers are started.
Fork ==
    /\ ~Forked
    /\ mpc = 1 /\ stdout = << >>
    /\ \E W \in WorkerSets : \E k \in W :
          /\ ctx' = [j \in W |-> Fresh]
          /\ mpc' = CallAt(k)
    /\ pc' = 0
    /\ prs' = NoPrs
    /\ UNCHANGED <<files, stdout, exc, fault, reopened, did, now>>

\* The running worker is suspended and worker k goes on.
Switch(k) ==
    /\ Forked
    /\ InDeck
    /\ k \in DOMAIN ctx
    /\ k # K
    /\ ctx[k].pc < Len(Deck(k))
    /\ ctx' = [ctx EXCEPT ![K] = [pc |-> pc, prs |-> prs], ![k] = Fresh]
    /\ mpc' = CallAt(k)
    /\ pc' = ctx[k].pc
    /\ prs' = Resumed(k)
    /\ UNCHANGED <<files, stdout, exc, fault, reopened, did, now>>

WorkerStep == Forked /\ Step

\* Every worker has come to its end; the main block is then run as it
\* stands, one build after the other, over the files the workers left.
Join ==
    /\ Forked
    /\ InDeck
    /\ pc = Len(Prog)
    /\ \A k \in DOMAIN ctx \ {K} : ctx[k].pc = Len(Deck(k))
    /\ ctx' = NoCtx
    /\ mpc' = 1
    /\ pc' = 0
    /\ prs' = NoPrs
    /\ UNCHANGED <<files, stdout, exc, fault, reopened, did, now>>

SeqNext == ~Forked /\ files # [p \in Paths |-> NoFile] /\ Next

NextPar == Fork \/ WorkerStep \/ (\E k \in Decks : Switch(k)) \/ Join \/ SeqNext

SpecPar == Init /\ [][NextPar]_vars

(***************************************************************************)
(* SpecGeom: the placing calls with any left, top, width and height, among *)
(* them the corners the builds use (a left of Inches(-2) with a width of   *)
(* Inches(20), a top of Inches(-1)) and extents of zero and below.         *)
(***************************************************************************)
Lefts == {-1828800, 0, 7315200}

Tops == {-914400, 0}

Widths == {-914400, 0, 914400, 18288000}

Heights == {0, 3657600, 10972800}

Geoms ==
    {[prst |-> "RECTANGLE", left |-> l, top |-> t, width |-> w, height |-> h] :
        l \in Lefts, t \in Tops, w \in Widths, h \in Heights}

TextAt(g) ==
    [TitleText EXCEPT !.left = g.left, !.top = g.top,
                      !.width = g.width, !.height = g.height]

GOpen == DoOpen /\ pc' = pc

GAddShape == Room /\ pc' = pc /\ \E g \in Geoms : DoAddShape(g)

GAddTextBox == Room /\ pc' = pc /\ \E g \in Geoms : DoAddTextBox(TextAt(g))

GAddShapeWithOpacity ==
    /\ Room /\ pc' = pc
    /\ \E g \in Geoms : DoAddShapeWithOpacity(g, AVEMO_ORANGE, 100, NoColor)

NextGeom == GOpen \/ GAddShape \/ GAddTextBox \/ GAddShapeWithOpacity

SpecGeom == InitOps /\ [][NextGeom]_vars

(***************************************************************************)
(* SpecColour: the two placing helpers called with a colour written at the *)
(* call, add_text_box(..., color=RGBColor(r, g, b)), for channels inside   *)
(* and outside of 0..255.  Python evaluates the arguments before it enters *)
(* the helper, so an RGBColor that raises ends the statement there.        *)
(***************************************************************************)
Channels == {-1, 0, 255, 256}

Colours == {<<r, g, b>> : r \in Channels, g \in Channels, b \in Channels}

\* The argument RGBColor(c) raises: the helper is never entered.
ArgRaises(op, g, c) ==
    /\ Building
    /\ RGBColorRaises(c)
    /\ exc' = [type |-> "ValueError", arg |-> "RGBColor"]
    /\ Placed(op, 100, g, c)
    /\ UNCHANGED <<prs, files, reopened>> /\ HFrame

COpen == DoOpen /\ pc' = pc

CAddTextBox ==
    /\ Room /\ exc = NoExc /\ pc' = pc
    /\ \E c \in Colours :
          IF RGBColorRaises(c)
          THEN ArgRaises("add_text_box", TitleText, c)
          ELSE DoAddTextBox([TitleText EXCEPT !.rgb = c])

CAddShapeWithOpacity ==
    /\ Room /\ exc = NoExc /\ pc' = pc
    /\ \E c \in Colours :
          IF RGBColorRaises(c)
          THEN ArgRaises("add_shape_with_opacity", Card, c)
          ELSE DoAddShapeWithOpacity(Card, c, 100, NoColor)

NextColour == COpen \/ CAddTextBox \/ CAddShapeWithOpacity

SpecColour == InitOps /\ [][NextColour]_vars

(***************************************************************************)
(* Properties of the program run (Spec, SpecFault).                        *)
(***************************************************************************)
SlideIx == 1..Len(prs.slides)

Overlap(a, b) ==
    /\ a.left < b.left + b.width /\ b.left < a.left + a.width
    /\ a.top < b.top + b.height /\ b.top < a.top + a.height

\* The elements of every slide stand in the order in which they were added
\* (ids are handed out in that order).
ZOrderIsInsertionOrder ==
    \A s \in SlideIx : \A i, j \in 1..Len(prs.slides[s]) :
        prs.slides[s][i].id < prs.slides[s][j].id => i < j

\* A step of a build keeps every element already on a slide at its index.
KeepsPlaces ==
    (prs.open /\ prs'.open) =>
        \A s \in SlideIx :
            /\ s <= Len(prs'.slides)
            /\ \A i \in 1..Len(prs.slides[s]) :
                  /\ i <= Len(prs'.slides[s])
                  /\ prs'.slides[s][i].id = prs.slides[s][i].id

\* C4: z-order is insertion order.  In every state of a build, of two
\* elements of a slide the one added earlier has the lower index (so the
\* later one is drawn above it), and no step moves an element to another
\* index.
C4_ZOrder == [](ZOrderIsInsertionOrder) /\ [][KeepsPlaces]_vars

\* A slide holding a shape and, added later at overlapping coordinates, a
\* second element above it.
C4_Witness ==
    /\ prs.open
    /\ \E s \in SlideIx : \E i, j \in 1..Len(prs.slides[s]) :
          /\ i < j
          /\ prs.slides[s][i].id < prs.slides[s][j].id
          /\ i > 1
          /\ Overlap(prs.slides[s][i], prs.slides[s][j])

\* C5: placing a shape (add_shape) or a text block (add_text_box) is a
\* pure append.  The step adds exactly one element, at the end of the
\* current slide, and leaves the elements already there and all other
\* slides as they were.
C5_PureAppend ==
    [][((At("add_shape") \/ At("add_text_box")) /\ exc' = NoExc) =>
         /\ Len(prs'.slides) = Len(prs.slides)
         /\ \A s \in SlideIx : s < Len(prs.slides) =>
               prs'.slides[s] = prs.slides[s]
         /\ Len(CurSlide(prs')) = Len(CurSlide(prs)) + 1
         /\ SubSeq(CurSlide(prs'), 1, Len(CurSlide(prs))) = CurSlide(prs)]_vars

\* A text block has just been placed on a later slide, behind earlier
\* elements of that slide.
C5_Witness ==
    /\ InDeck /\ pc > 0 /\ pc <= Len(Prog)
    /\ Prog[pc].op = "add_text_box"
    /\ Len(prs.slides) >= 2
    /\ Len(CurSlide(prs)) >= 3
    /\ CurSlide(prs)[Len(CurSlide(prs))].txBox

Count(seq, x) == Cardinality({i \in 1..Len(seq) : seq[i] = x})

\* The file name a deck's acknowledgement gives, and the one of its path.
OutDir == "/root/fahrerplanung/presentations/"

AckPrefix == "Created: "

NamedFile(msg) == SubSeq(msg, Len(AckPrefix) + 1, Len(msg))

\* Build k has returned to the main block.
Returned(k) == \E i \in 1..Len(Main) : Main[i].k = k /\ mpc > i

\* C9 as claimed: when the save of one deck fails, the failure is reported
\* with the artifact's name and the other four decks are still built and
\* saved.
C9_OthersStillSaved ==
    \A k \in Decks :
        (Terminated /\ exc.type = "OSError" /\ exc.arg = SavePath(k)) =>
            /\ exc.arg = OutDir \o NamedFile(CreatedMsg(k))
            /\ \A j \in Decks \ {k} : files[SavePath(j)].complete

\* C10: "Created: <name>" of deck k is printed at most once, only when the
\* save of deck k has completed, names the file deck k saved, and is there
\* exactly once when build k has returned.
C10_AckAfterSave ==
    \A k \in Decks :
        /\ Count(stdout, CreatedMsg(k)) <= 1
        /\ Count(stdout, CreatedMsg(k)) = 1 =>
              /\ files[SavePath(k)].complete
              /\ SubSeq(CreatedMsg(k), 1, Len(AckPrefix)) = AckPrefix
              /\ SavePath(k) = OutDir \o NamedFile(CreatedMsg(k))
        /\ ~files[SavePath(k)].complete => Count(stdout, CreatedMsg(k)) = 0
        /\ Returned(k) => Count(stdout, CreatedMsg(k)) = 1
        /\ \A j \in Decks \ {k} : CreatedMsg(j) # CreatedMsg(k)

\* Deck 1 saved and acknowledged, then the save of deck 2 failed: one
\* acknowledgement, none for deck 2.
C10_Witness ==
    /\ files[SavePath(1)].complete
    /\ Count(stdout, CreatedMsg(1)) = 1
    /\ exc.type = "OSError" /\ exc.arg = SavePath(2)
    /\ Count(stdout, CreatedMsg(2)) = 0

Opaque(e) == e.alpha = << >>

\* The snippet has just run on a shape with a solid, coloured fill.
InjectedOnSolid ==
    /\ did.op = "alpha" /\ HasShape
    /\ LastShape.fill = "solid" /\ LastShape.rgb # NoColor

\* C1 as claimed: after the injection with p and then with q the shape's
\* fill colour has exactly one alpha child, whose value is that of q; no
\* element ever has a second alpha child.
C1_OverwriteNotAppend ==
    /\ prs.open =>
          \A s \in SlideIx : \A i \in 1..Len(prs.slides[s]) :
              Len(prs.slides[s][i].alpha) <= 1
    /\ InjectedOnSolid => LastShape.alpha = <<AlphaVal(did.p)>>

\* The snippet runs on a shape without a solid fill.
InjectsOnUnfilled ==
    /\ did'.op = "alpha" /\ HasShape
    /\ LastShape.fill # "solid"

\* C2: the injection on a shape without a solid fill (none assigned, or
\* set to background) raises nothing and changes nothing: the shape is as
\* it was, without an alpha child, and the build can go on to its save.
C2_UnfilledUntouched ==
    [][InjectsOnUnfilled =>
         /\ exc' = NoExc
         /\ prs' = prs
         /\ Opaque(LastShape)
         /\ ENABLED HSave]_vars

\* An outline-only shape (line colour set, fill set to background) on which
\* the snippet has just run.
C2_Witness ==
    /\ did.op = "alpha" /\ HasShape
    /\ LastShape.fill = "noFill" /\ LastShape.lnFill = "solid"
    /\ Opaque(LastShape) /\ exc = NoExc

\* C3 as claimed: the injection with p on a shape that has just had the
\* injection with the same p changes nothing.
C3_Idempotent ==
    [][(InjectedOnSolid /\ did'.op = "alpha" /\ did'.p = did.p) =>
          prs' = prs]_vars

C7_SameArtifact ==
    [][(At("save") /\ files[Cur.path].complete /\ files'[Cur.path].complete) =>
          files'[Cur.path] = files[Cur.path]]_vars

\* The slides a second call saves are those the first call saved.
SameContent ==
    [][(At("save") /\ files[Cur.path].complete /\ files'[Cur.path].complete) =>
          files'[Cur.path].data = files[Cur.path].data]_vars

(***************************************************************************)
(* Properties of the workers (SpecPar).                                    *)
(***************************************************************************)
AddsSlide(ins) == ins.op = "add_slide"

AddsElement(ins) == ins.op \in {"add_shape", "add_text_box"}

\* The presentation p of build k after n statements holds what these n
\* statements put there and nothing else: their slides, and on the last
\* slide the elements added since it was begun.
OwnOnly(k, n, p) ==
    LET slideAt == {i \in 1..n : AddsSlide(Deck(k)[i])}
        begun   == IF slideAt = {} THEN 0 ELSE MaxOf(slideAt)
    IN  p.open =>
          /\ Len(p.slides) = Cardinality(slideAt)
          /\ Len(p.slides) > 0 =>
                Len(CurSlide(p)) =
                    Cardinality({i \in begun..n : i > 0 /\ AddsElement(Deck(k)[i])})

Interleaved ==
    /\ Forked /\ InDeck /\ K = 1
    /\ pc = SaveAt(1) /\ files[SavePath(1)].complete
    /\ ctx[3].prs.open /\ Len(ctx[3].prs.slides) = 3
    /\ Len(CurSlide(ctx[3].prs)) > 0

(***************************************************************************)
(* Properties of the placing calls (SpecGeom).                             *)
(***************************************************************************)
Placing == did.op \in {"add_shape", "add_text_box", "add_shape_with_opacity"}

PositiveExtent(g) == g.width > 0 /\ g.height > 0

\* C12: for every left and top and every width > 0 and height > 0 a
\* placing call succeeds, and the element it made stores left, top, width
\* and height exactly as given, negative or beyond the canvas as they may
\* be.
C12_BoundsAsGiven ==
    (Placing /\ PositiveExtent(did.at)) =>
        /\ exc = NoExc
        /\ HasShape
        /\ LastShape.left = did.at.left /\ LastShape.top = did.at.top
        /\ LastShape.width = did.at.width /\ LastShape.height = did.at.height

\* A shape placed like the diagonal of line 195: it begins left of the
\* canvas and ends right of it.
C12_Witness ==
    /\ did.op = "add_shape" /\ PositiveExtent(did.at)
    /\ did.at.left < 0 /\ did.at.left + did.at.width > prs.width
    /\ did.at.top < 0 /\ did.at.top + did.at.height > prs.height
    /\ LastShape.left = did.at.left /\ LastShape.width = did.at.width

\* C14 as claimed: a placing call with a width or a height of zero or
\* below raises an error and adds no element: no slide ever holds an
\* element of a non-positive extent.
C14_NonPositiveRejected ==
    /\ (Placing /\ ~PositiveExtent(did.at)) => exc # NoExc
    /\ prs.open =>
          \A s \in SlideIx : \A i \in 1..Len(prs.slides[s]) :
              PositiveExtent(prs.slides[s][i])

(***************************************************************************)
(* Properties of the colour of a placing call (SpecColour).                *)
(***************************************************************************)
PlacingColoured == Placing /\ did.rgb # NoColor

InRange(c) == \A i \in 1..3 : c[i] \in 0..255

Coloured(e) == IF e.txBox THEN e.text.rgb ELSE e.rgb

Ran(o) == InDeck /\ pc > 0 /\ Prog[pc].op = o

\* C15: whenever a build is about to run an opacity snippet, the shape the
\* snippet names is the one appended last to the current slide, a shape
\* with a solid fill whose colour is already assigned; nothing was
\* appended between that shape and the snippet.
C15_InjectOnLastFilled ==
    At("alpha") =>
        /\ Len(prs.slides) > 0
        /\ Cur.h = Len(CurSlide(prs))
        /\ Target.fill = "solid"
        /\ Target.rgb # NoColor
        /\ Target.alpha = << >>

\* The snippet of lines 96-102 has just run on the shape of line 92.
C15_Witness ==
    /\ Ran("alpha") /\ K = 1 /\ Prog[pc].ln \in 96..102
    /\ Prog[pc].h = Len(CurSlide(prs))
    /\ CurSlide(prs)[Prog[pc].h].rgb # NoColor
    /\ Len(CurSlide(prs)[Prog[pc].h].alpha) = 1

(***************************************************************************)
(* The background of a slide.                                              *)
(***************************************************************************)
IsFullCanvas(e) ==
    /\ e.left = 0 /\ e.top = 0
    /\ e.width = prs.width /\ e.height = prs.height

FullCanvasAt(s) == {i \in 1..Len(prs.slides[s]) : IsFullCanvas(prs.slides[s][i])}

\* The slides a build has finished: all but the one it is working on, and
\* that one too from the save on.
Finished(s) == InDeck /\ prs.open /\ (s < Len(prs.slides) \/ pc >= SaveAt(K) - 1)

\* Two rectangles side by side, or one above the other, that cover the
\* canvas exactly.
Tiles(a, b) ==
    \/ /\ a.top = 0 /\ b.top = 0 /\ a.height = prs.height /\ b.height = prs.height
       /\ a.left = 0 /\ b.left = a.width /\ a.width + b.width = prs.width
    \/ /\ a.left = 0 /\ b.left = 0 /\ a.width = prs.width /\ b.width = prs.width
       /\ a.top = 0 /\ b.top = a.height /\ a.height + b.height = prs.height

Filled(e) == ~e.txBox /\ e.fill = "solid" /\ e.rgb # NoColor

SplitBackground(sl) ==
    Len(sl) > 1 /\ Filled(sl[1]) /\ Filled(sl[2]) /\ Tiles(sl[1], sl[2])

\* C16 as claimed: every finished slide holds exactly one full-canvas
\* element, at (0,0) with the width and height of the canvas, and it is the
\* slide's first element.
C16_OneFullCanvasFirst ==
    prs.open =>
        \A s \in SlideIx : Finished(s) =>
            /\ Len(prs.slides[s]) > 0
            /\ FullCanvasAt(s) = {1}

\* C16, amended: every finished slide begins with a filled background that
\* covers the canvas exactly: its first element is a filled rectangle of
\* the canvas's width and height at (0,0), the only such element of the
\* slide, or its first two elements are two filled rectangles that tile
\* the canvas and no element spans the canvas alone.
C16_BackgroundCoversCanvas ==
    prs.open =>
        \A s \in SlideIx : Finished(s) =>
            /\ Len(prs.slides[s]) > 0
            /\ \/ Filled(prs.slides[s][1]) /\ FullCanvasAt(s) = {1}
               \/ SplitBackground(prs.slides[s]) /\ FullCanvasAt(s) = {}

\* Build 3 has finished its second slide, the one split into a left and a
\* right half (lines 612-620).
C16_Witness ==
    /\ InDeck /\ K = 3 /\ prs.open /\ Len(prs.slides) = 3
    /\ Finished(2) /\ SplitBackground(prs.slides[2])
    /\ FullCanvasAt(1) = {1}

(***************************************************************************)
(* Opacity and text boxes.                                                 *)
(***************************************************************************)
TextBoxesOpaque(p) ==
    \A s \in 1..Len(p.slides) : \A i \in 1..Len(p.slides[s]) :
        p.slides[s][i].txBox => p.slides[s][i].alpha = << >>

\* C17: in every state of every build no text box carries an opacity, in
\* the deck being built and in the files written, and the shape an opacity
\* snippet is about to act on is never a text box.
C17_OpacityOnShapesOnly ==
    /\ prs.open => TextBoxesOpaque(prs)
    /\ \A f \in Paths : files[f].complete => TextBoxesOpaque(Parse(files[f].data))
    /\ At("alpha") => ~Target.txBox

\* Build 1 is at the snippet of lines 121-127: the slide holds text boxes
\* and a shape with an opacity, and the snippet's card is a shape.
C17_Witness ==
    /\ At("alpha") /\ K = 1 /\ Cur.ln \in 121..127
    /\ \E i \in 1..Len(CurSlide(prs)) : CurSlide(prs)[i].txBox
    /\ ~Target.txBox

(***************************************************************************)
(* Decks and their slides (Spec).                                          *)
(***************************************************************************)
Completed == mpc > Len(Main) /\ exc = NoExc

\* C18: the main block calls five builds, each for a file of its own; a
\* build has exactly five slides when it comes to its save, so has every
\* file written, and a run that ends without an error leaves five files.
\* A new slide goes to the end of the deck being built and to no other:
\* the slides before it keep their places and no file changes.
C18_FiveDecksOfFive ==
    /\ [](Cardinality(Decks) = 5 /\ Cardinality(Paths) = 5)
    /\ [](At("save") => Len(prs.slides) = 5)
    /\ [](\A f \in Paths : files[f].complete =>
              Len(Parse(files[f].data).slides) = 5)
    /\ [](Completed => \A f \in Paths : files[f].complete)
    /\ [][At("add_slide") =>
             /\ Len(prs'.slides) = Len(prs.slides) + 1
             /\ \A s \in SlideIx : prs'.slides[s] = prs.slides[s]
             /\ files' = files]_vars

\* Build 2 is at its save with five slides, the deck of build 1 is on disk.
C18_Witness ==
    /\ At("save") /\ K = 2 /\ Len(prs.slides) = 5
    /\ files[SavePath(1)].complete
    /\ ~files[SavePath(2)].exists

(***************************************************************************)
(* The save of a deck (Spec).                                              *)
(***************************************************************************)
Saved(k) == files[SavePath(k)].exists

\* The statements of build k that make the deck.
Makes(k) == {i \in 1..Len(Deck(k)) : Deck(k)[i].op \notin {"save", "print"}}

\* C19: a build saves once and last: its file comes into being at the
\* save statement only, when every statement that makes the deck has run;
\* a file written in full is the deck as it stands and is not written
\* again; after the save the build adds nothing to the deck.
C19_SavedOnceWhenComplete ==
    /\ \A k \in Decks :
          /\ Cardinality({i \in 1..Len(Deck(k)) : Deck(k)[i].op = "save"}) = 1
          /\ \A i \in Makes(k) : i < SaveAt(k)
    /\ [](InDeck /\ Saved(K) => pc >= SaveAt(K) - 1)
    /\ [](InDeck /\ files[SavePath(K)].complete =>
              files[SavePath(K)].data = Serialize(prs))
    /\ [][\A k \in Decks :
             /\ files'[SavePath(k)] # files[SavePath(k)] => At("save") /\ K = k
             /\ files[SavePath(k)].complete => files'[SavePath(k)] = files[SavePath(k)]
             /\ (InDeck /\ InDeck' /\ K = k /\ K' = k /\ Saved(k)) => prs' = prs]_vars

\* Build 1 has saved and acknowledged; the file is the deck.
C19_Witness ==
    /\ InDeck /\ K = 1 /\ pc = Len(Prog)
    /\ files[SavePath(1)].complete
    /\ files[SavePath(1)].data = Serialize(prs)
    /\ Len(prs.slides) = 5

(***************************************************************************)
(* Opacity values (Spec).                                                  *)
(***************************************************************************)
AlphaInRange(p) ==
    \A s \in 1..Len(p.slides) : \A i \in 1..Len(p.slides[s]) :
        \A j \in 1..Len(p.slides[s][i].alpha) :
            p.slides[s][i].alpha[j] \in 0..100000

\* The snippets run so far on element h of the slide being built.
InjectedOn(h) ==
    LET slideAt == {i \in 1..pc : AddsSlide(Prog[i])}
        begun   == IF slideAt = {} THEN 0 ELSE MaxOf(slideAt)
    IN  {i \in (begun + 1)..pc : Prog[i].op = "alpha" /\ Prog[i].h = h}

\* C20: every opacity in a deck, while it is built and in its file, is a
\* value in 0..100000; an element of the slide being built has as many
\* opacity values as snippets were run on it, none when there was none.
C20_OpacityRange ==
    /\ prs.open => AlphaInRange(prs)
    /\ \A f \in Paths : files[f].complete => AlphaInRange(Parse(files[f].data))
    /\ (InDeck /\ prs.open /\ Len(prs.slides) > 0) =>
          \A h \in 1..Len(CurSlide(prs)) :
              Len(CurSlide(prs)[h].alpha) = Cardinality(InjectedOn(h))

\* First slide of build 1 after the snippet of lines 121-127: the glow has
\* 15000, the card 70000, the background none.
C20_Witness ==
    /\ InDeck /\ K = 1 /\ Len(prs.slides) = 1 /\ Len(CurSlide(prs)) >= 6
    /\ CurSlide(prs)[3].alpha = <<15000>>
    /\ CurSlide(prs)[6].alpha = <<70000>>
    /\ CurSlide(prs)[1].alpha = << >>
    /\ InjectedOn(1) = {}

(***************************************************************************)
(* The canvas of a deck (Spec).                                            *)
(***************************************************************************)
OpsOf(k, o) == {i \in 1..Len(Deck(k)) : Deck(k)[i].op = o}

\* C21: every build assigns the width and the height of its canvas once
\* each, before its first slide, to 13.333 in and 7.5 in (12191695 and
\* 6858000 EMU); from the first slide on the canvas has these dimensions
\* and no step changes them, and every file written holds them, so the
\* five decks agree.
C21_CanvasSetOnce ==
    /\ \A k \in Decks :
          /\ Cardinality(OpsOf(k, "slide_width")) = 1
          /\ Cardinality(OpsOf(k, "slide_height")) = 1
          /\ \A i \in OpsOf(k, "slide_width") \cup OpsOf(k, "slide_height") :
                /\ \A j \in OpsOf(k, "add_slide") : i < j
                /\ Deck(k)[i].v \in {12191695, 6858000}
    /\ []((prs.open /\ Len(prs.slides) > 0) =>
              prs.width = 12191695 /\ prs.height = 6858000)
    /\ [](\A f \in Paths : files[f].complete =>
              /\ Parse(files[f].data).width = 12191695
              /\ Parse(files[f].data).height = 6858000)
    /\ [][(prs.open /\ prs'.open) =>
             /\ prs'.width # prs.width => At("slide_width")
             /\ prs'.height # prs.height => At("slide_height")]_vars

\* Build 2 is at its save on the canvas of 13.333 in by 7.5 in, and the
\* file of build 1 has the same canvas.
C21_Witness ==
    /\ At("save") /\ K = 2
    /\ prs.width = SLIDE_WIDTH /\ prs.height = SLIDE_HEIGHT
    /\ files[SavePath(1)].complete
    /\ Parse(files[SavePath(1)].data).width = prs.width
    /\ Parse(files[SavePath(1)].data).height = prs.height

(***************************************************************************)
(* The opacity argument of add_shape_with_opacity (SpecOps).               *)
(***************************************************************************)
\* C22 as claimed: the shape add_shape_with_opacity returns has the
\* opacity asked for: called with an opacity below 1.0 (p below 100
\* percent) its fill carries that opacity, called with 1.0 it carries
\* none.
C22_RequestedOpacity ==
    did.op = "add_shape_with_opacity" =>
        /\ HasShape
        /\ IF did.p < 100
           THEN LastShape.alpha = <<AlphaVal(did.p)>>
           ELSE LastShape.alpha = << >>

(***************************************************************************)
(* One opacity per shape (Spec).                                           *)
(***************************************************************************)
AtMostOneAlpha(p) ==
    \A s \in 1..Len(p.slides) : \A i \in 1..Len(p.slides[s]) :
        Len(p.slides[s][i].alpha) <= 1

\* C23: in every build no shape is the target of two opacity snippets:
\* the shape a snippet is about to act on was the target of none before,
\* also within a loop, where every pass has appended its own shape; so no
\* colour node of a deck, while built or in its file, has two alpha
\* children.
C23_AtMostOneInjection ==
    /\ prs.open => AtMostOneAlpha(prs)
    /\ \A f \in Paths : files[f].complete => AtMostOneAlpha(Parse(files[f].data))
    /\ (InDeck /\ prs.open /\ Len(prs.slides) > 0) =>
          \A h \in 1..Len(CurSlide(prs)) : Cardinality(InjectedOn(h)) <= 1
    /\ At("alpha") => InjectedOn(Cur.h) = {} /\ Cur.h = Len(CurSlide(prs))

\* The loop of lines 160-174 in its second pass: the cards of both passes
\* have one opacity each.
C23_Witness ==
    /\ Ran("alpha") /\ K = 1 /\ Len(prs.slides) = 2
    /\ Prog[pc].ln = 168 /\ Prog[pc].h = 8
    /\ CurSlide(prs)[5].alpha = <<60000>>
    /\ CurSlide(prs)[8].alpha = <<60000>>

(***************************************************************************)
(* What an opacity snippet leaves alone (Spec).                            *)
(***************************************************************************)
\* C24: a step that runs an opacity snippet changes the opacity of the
\* shape it names and nothing else: that shape keeps its place in the
\* slide and every other attribute (kind, position, size, fill colour,
\* line, rotation, text), every other element and slide of the deck is as
\* before, and so are the files and the output.
C24_InjectionFrame ==
    [][At("alpha") =>
          /\ prs'.open
          /\ Len(prs'.slides) = Len(prs.slides)
          /\ \A s \in 1..(Len(prs.slides) - 1) : prs'.slides[s] = prs.slides[s]
          /\ Len(CurSlide(prs')) = Len(CurSlide(prs))
          /\ \A i \in 1..Len(CurSlide(prs)) :
                i # Cur.h => CurSlide(prs')[i] = CurSlide(prs)[i]
          /\ [CurSlide(prs')[Cur.h] EXCEPT !.alpha = Target.alpha] = Target
          /\ CurSlide(prs')[Cur.h].alpha = Append(Target.alpha, Cur.val)
          /\ prs'.width = prs.width /\ prs'.height = prs.height
          /\ files' = files /\ stdout' = stdout]_vars

\* The snippet of lines 200-206 has run on the diagonal of line 195: it is
\* where it was put, orange, now at 20 %.
C24_Witness ==
    /\ Ran("alpha") /\ K = 1 /\ Prog[pc].ln = 200
    /\ CurSlide(prs)[Prog[pc].h].alpha = <<20000>>
    /\ CurSlide(prs)[Prog[pc].h].left = -1828800
    /\ CurSlide(prs)[Prog[pc].h].rgb = AVEMO_ORANGE
    /\ Len(prs.slides) = 3

(***************************************************************************)
(* Text boxes and the shapes added after them (Spec).                      *)
(***************************************************************************)
\* The pairs (t, j) of slide s: a text box t and a solid-filled shape j
\* added after it whose rectangles share interior.
CoveredText(p, s) ==
    {<<t, j>> \in (1..Len(p.slides[s])) \X (1..Len(p.slides[s])) :
        /\ t < j
        /\ p.slides[s][t].txBox
        /\ ~p.slides[s][j].txBox /\ p.slides[s][j].fill = "solid"
        /\ Overlap(p.slides[s][t], p.slides[s][j])}

\* C25 as claimed: on no slide of a deck does a solid-filled shape added
\* after a text box share interior with the text box's rectangle.
C25_NoTextCovered ==
    prs.open => \A s \in SlideIx : CoveredText(prs, s) = {}

(***************************************************************************)
(* The extents the builds place (Spec).                                    *)
(***************************************************************************)
AllPositive(p) ==
    \A s \in 1..Len(p.slides) : \A i \in 1..Len(p.slides[s]) :
        PositiveExtent(p.slides[s][i])

\* C26: every shape and every text box a build places has a width and a
\* height above zero, as asked for by the statement and as held by the
\* deck and by its file; left and top may be below zero.
C26_PlacedExtentsPositive ==
    /\ (At("add_shape") \/ At("add_text_box")) => PositiveExtent(Cur)
    /\ prs.open => AllPositive(prs)
    /\ \A f \in Paths : files[f].complete => AllPositive(Parse(files[f].data))

\* The gray shape of line 343 is placed: left and top of Inches(-1), 8 in
\* wide and 10 in high.
C26_Witness ==
    /\ Ran("add_shape") /\ K = 2 /\ Prog[pc].ln = 343
    /\ CurSlide(prs)[Len(CurSlide(prs))].left < 0
    /\ CurSlide(prs)[Len(CurSlide(prs))].top < 0
    /\ PositiveExtent(CurSlide(prs)[Len(CurSlide(prs))])
    /\ CurSlide(prs)[Len(CurSlide(prs))].height > prs.height

(***************************************************************************)
(* The order of the builds and the closing message (SpecAny).              *)
(***************************************************************************)
FinalMsg == Main[Len(Main)].msg

SavedAndAcknowledged(k) ==
    files[SavePath(k)].complete /\ Count(stdout, CreatedMsg(k)) = 1

NotBegun(k) == ~files[SavePath(k)].exists /\ Count(stdout, CreatedMsg(k)) = 0

\* C27: the builds run in the order 1, 2, 3, 4, 5: while build k runs,
\* every build before it has saved and acknowledged its deck and no build
\* after it has begun, and the main block goes from build k to build k + 1
\* only.  The closing message is printed only when all five decks are
\* saved; once a build or a save has raised, it is not printed and nothing
\* more is.
C27_InOrderThenFinal ==
    /\ [](InDeck =>
            \A j \in Decks :
                /\ j < K => SavedAndAcknowledged(j)
                /\ j > K => NotBegun(j))
    /\ [](Count(stdout, FinalMsg) > 0 =>
            /\ exc = NoExc
            /\ \A k \in Decks : SavedAndAcknowledged(k))
    /\ [](exc # NoExc => Count(stdout, FinalMsg) = 0)
    /\ [][/\ (InDeck /\ InDeck' /\ K' # K) => K' = K + 1
          /\ exc # NoExc => stdout' = stdout /\ files' = files]_vars

\* Build 2 is about to begin: deck 1 is saved and acknowledged, the decks
\* 2 to 5 are not begun, the closing message is not printed.
C27_Witness ==
    /\ InDeck /\ K = 2 /\ pc = 0
    /\ SavedAndAcknowledged(1)
    /\ \A j \in Decks \ {1} : NotBegun(j)
    /\ Count(stdout, FinalMsg) = 0
    /\ fault = NoFault
====
